---- MODULE Spec2Model ----
(***************************************************************************)
(* Verification model of go-heif's admission and dispatch core:            *)
(*   internal/converter/pool.go       WorkerPool, Submit, SubmitWithRetry  *)
(*   internal/middleware/concurrency.go   ConcurrencyLimiter               *)
(*                                                                         *)
(* Go channel semantics used throughout:                                   *)
(*   - a select whose several cases are ready picks any one of them;       *)
(*   - its default case runs only when no other case is ready;             *)
(*   - a buffered send is ready while len < cap; with cap = 0 it is ready  *)
(*     only when a receiver is parked on the channel;                      *)
(*   - range over a closed channel drains the buffer and then ends.        *)
(***************************************************************************)
EXTENDS Integers, Sequences, FiniteSets, TLC

\* ---------------------------------------------------------------- bounds
MaxWorkers == 1
NumClients == 3
NumRetriers == 1
MaxRetries == 2
NumCallers == 3
MaxSlots == 2
MaxRate == 2
MaxBurst == 2
TicksPerSec == 2
MaxAdvances == 3

Workers == 1..MaxWorkers
Clients == 1..NumClients
Retriers == 1..NumRetriers
Starter == 0
Procs == {Starter} \cup Clients
Callers == 1..NumCallers

VARIABLES
    workers,    \* WorkerPool.workers (N)
    jobs,       \* WorkerPool.jobs: the buffer of the job channel, oldest first
    closed,     \* whether close(p.jobs) has run
    once,       \* WorkerPool.once: "new", "running" (f executing), "done"
    spawnIdx,   \* loop variable i of Start's closure
    wg,         \* WorkerPool.wg counter
    wst,        \* per worker goroutine: "unborn", "recv", "busy", "exited"
    wjob,       \* the job a busy worker holds (0 when none)
    spawned,    \* number of worker goroutines ever spawned
    job,        \* per request: the Job it enqueued and that Job's Result channel
    client,     \* per goroutine calling Start / Submit / SubmitWithRetry
    stopPc,     \* the caller of Stop: "idle", "wait" (in wg.Wait), "done"
    stopStarted,\* history: whether Start had completed when Stop was called
    stopQueued, \* history: number of jobs in the queue when Stop was called
    sem,        \* ConcurrencyLimiter.semaphore: number of buffered tokens
    active,     \* ConcurrencyLimiter.active
    clMax,      \* ConcurrencyLimiter.max
    caller,     \* per caller of Acquire / Release
    req,        \* per HTTP request passing through the middleware chain
    rate,       \* RateLimiter.rate (tokens per second)
    burst,      \* RateLimiter.burst
    limits,     \* RateLimiter.limits: key -> bucket
    now,        \* the clock read by time.Now(), in ticks
    rlRet,      \* history: the last Allow call, its key and what it returned
    streak,     \* history, per key: Allow calls made at the instant its bucket was created
    lastCall,   \* history, per key: when Allow was last called and what it
                \* returned, and the same of the call before it
    charged,    \* history, per client IP: bucket keys its header-less requests were charged to
    admits,     \* history, per key: the times at which Allow returned true
                \* (kept by AllowTimed)
    estIn,      \* quality estimator: the two images and the target size given to it
    estOut,     \* quality estimator: the qualities returned for them (0: not called)
    scIn,       \* scaler: the image and the scale factor given to scaleImage
    scOut,      \* scaler: the image it returned (ptr "pending": not called)
    globalBufferPool, \* per tier, the buffers its sync.Pool holds
    heap,       \* the buffers ever allocated: state, len and cap of each
    lastGet,    \* history: the last GetBuffer call and the buffer it returned
    pay,        \* a payload on its way to the decoder, and the checks it has met
    sel,        \* a (scale, quality) pair, the variants picked for it and the
                \* quality the worker's variant encodes with
    nearest     \* a run of scaleYCbCrNearest: its images, loop and row

poolVars == <<workers, jobs, closed, once, spawnIdx, wg, wst, wjob, spawned,
              job, client, stopPc, stopStarted, stopQueued>>
clVars == <<sem, active, clMax, caller>>
rlVars == <<rate, burst, limits, now, rlRet, streak, lastCall, charged, admits>>
bpVars == <<globalBufferPool, heap, lastGet>>
fnVars == <<estIn, estOut, scIn, scOut, bpVars, pay, sel, nearest>>
extVars == <<req, rlVars, fnVars>>
vars == <<workers, jobs, closed, once, spawnIdx, wg, wst, wjob, spawned,
          job, client, stopPc, stopStarted, stopQueued, sem, active, clMax, caller,
          req, rate, burst, limits, now, rlRet, streak, lastCall, charged, admits,
          estIn, estOut, scIn, scOut, globalBufferPool, heap, lastGet, pay, sel, nearest>>

\* ------------------------------------------------------------ outcomes
\* The (data, error) pair a call returns.  kind:
\*   "none"  nothing returned yet        "busy"  (nil, ErrPoolBusy)
\*   "ctx"   (nil, ctx.Err())            "ok"    (Result.Data, nil)
\*   "fail"  (nil, conversion error)     "nilnil" (nil, nil) with no data
\* job: the request whose Job the Result was computed from (0 when no
\* Result is involved).
NoOutcome == [kind |-> "none", job |-> 0]
ErrPoolBusy == [kind |-> "busy", job |-> 0]
CtxErr == [kind |-> "ctx", job |-> 0]
NilNil == [kind |-> "nilnil", job |-> 0]

\* `return result.Data, nil`: the Result's error is lost.
ResultWithoutErr(j, r) == [kind |-> "ok", job |-> j]

\* What Submit returns for the Result r of the Job of request j:
\* `return result.Data, result.Err`.
ResultOf(j, r) == [kind |-> r, job |-> j]

\* A request's Job before it is enqueued.  A Submit that returns ErrPoolBusy
\* never enqueued its Job, and any other outcome ends the request, so a
\* request enqueues at most one Job; the Job is named after the request.
\*   enq      the Job was sent on p.jobs
\*   taken    times a worker received it
\*   conv     times a worker converted it
\*   sent     Results sent on its result channel
\*   dropped  Results dropped by the worker's select default
\*   rchan    the buffer of its result channel: "empty" or the Result
NoJob == [enq |-> FALSE, taken |-> 0, conv |-> 0, sent |-> 0, dropped |-> 0,
          rchan |-> "empty"]

\* pc: "idle" (before the call), "start" (in p.Start()), "spawn" (running
\* Start's closure), "select" (Submit's outer select), "wait" (Submit's
\* inner select), "backoff" (SubmitWithRetry's select), "done" (returned).
\* ctx: whether the caller's context is done; ctx0: whether it was done
\* when the current Submit was called; i, max: SubmitWithRetry's i and
\* maxRetries; att: Submit calls made; out: what the last Submit returned;
\* lastErr: SubmitWithRetry's lastErr; ret: what the call returned;
\* first (history): which of the two events Submit's inner select waits for
\* happened first after the enqueue, "ctx" (context done) or "res" (Result
\* in the result channel), "none" while neither has.
IdleClient == [pc |-> "idle", op |-> "none", ctx |-> FALSE, ctx0 |-> FALSE,
               i |-> 0, max |-> 0, att |-> 0, first |-> "none",
               lastErr |-> NoOutcome, out |-> NoOutcome, ret |-> NoOutcome]

\* cap(p.jobs)
QueueCap(n) == n * 2

NewWorkerPool(n) ==
    /\ workers = n
    /\ jobs = << >>
    /\ closed = FALSE
    /\ once = "new"
    /\ spawnIdx = 0
    /\ wg = 0
    /\ wst = [w \in Workers |-> "unborn"]
    /\ wjob = [w \in Workers |-> 0]
    /\ spawned = 0

ConvResults == {"ok", "fail"}

\* A request that has not reached the server.
\*   stage   where the request is in the chain (see the middleware section)
\*   how     how its handler exited: "none", "return", "panic"
\*   status  the HTTP status written: 0 (none yet), 200, 429, 503, 500
\*   acq     Acquire calls that returned true for it
\*   rel     Release calls made for it
NoRequest == [stage |-> "new", how |-> "none", status |-> 0, acq |-> 0, rel |-> 0]

\* ------------------------------------------------- rate limiter: data
\* Strings are sequences of characters.  A client address and a port:
IPs == {<<"a">>, <<"b">>}
Ports == {<<"1">>, <<"2">>}
\* Values of the X-Forwarded-For and X-Real-IP headers (<< >>: not set).
XffValues == {<< >>, <<"b", ",", " ", "a">>}
XriValues == {<< >>, <<"b">>}

\* An HTTP request as the rate limiter sees it.  ip and port are the peer
\* of the connection; net/http sets RemoteAddr to "IP:port".
Requests ==
    {[xff |-> x, xri |-> y, ip |-> i, port |-> q, RemoteAddr |-> i \o <<":">> \o q] :
        x \in XffValues, y \in XriValues, i \in IPs, q \in Ports}

\* The index of the first ' ' or ',' of s, 0 when there is none.
FirstSeparator(s) ==
    LET seps == {i \in 1..Len(s) : s[i] \in {" ", ","}}
    IN  IF seps = {} THEN 0 ELSE CHOOSE i \in seps : \A j \in seps : i <= j

\* getIP: the key a request is charged to.
getIP(r) ==
    IF r.xff # << >>
    THEN IF FirstSeparator(r.xff) # 0
         THEN SubSeq(r.xff, 1, FirstSeparator(r.xff) - 1)
         ELSE r.xff
    ELSE IF r.xri # << >> THEN r.xri ELSE r.RemoteAddr

\* Every key a request can be charged to.
AllKeys == {getIP(r) : r \in Requests}

\* Token counts are kept in units of 1/TicksPerSec token, so that
\* elapsed.Seconds() * rate is a whole number of units.
Unit == TicksPerSec

\* ttl: 5 * time.Minute, in seconds and in ticks.
TtlSeconds == 300
Ttl == TtlSeconds * TicksPerSec

\* No entry in rl.limits.
NoBucket == [exists |-> FALSE, tokens |-> 0, lastRef |-> 0]

NoCall == [at |-> 0, ok |-> "none", prev |-> "none", prevAt |-> 0]

NewRateLimiter(r, b) ==
    /\ rate = r
    /\ burst = b
    /\ limits = [k \in AllKeys |-> NoBucket]
    /\ now = 0
    /\ rlRet = [key |-> << >>, ok |-> "none"]
    /\ streak = [k \in AllKeys |-> 0]
    /\ admits = [k \in AllKeys |-> << >>]
    /\ lastCall = [k \in AllKeys |-> NoCall]
    /\ charged = [i \in IPs |-> {}]

\* The pure functions, not called.
NoImage == [w |-> 0, h |-> 0]
InitEstIdle ==
    /\ estIn = [a |-> NoImage, b |-> NoImage, t |-> 0]
    /\ estOut = [a |-> 0, b |-> 0]

\* An image as scaleImage sees it.  ptr tells which object it is ("img": the
\* caller's image, "new": one allocated by image.NewYCbCr, "nil": no image),
\* kind its dynamic type (*image.YCbCr, or any other image.Image), ratio its
\* SubsampleRatio, w x h its Bounds (with Min at the origin), cw x ch the
\* size of each of its Cb and Cr planes, pix the content of its planes.
NilImage == [ptr |-> "nil", kind |-> "none", ratio |-> "none",
             w |-> 0, h |-> 0, cw |-> 0, ch |-> 0, pix |-> "none"]
NotCalled == [NilImage EXCEPT !.ptr = "pending"]
InitScaleIdle ==
    /\ scIn = [img |-> NilImage, scale |-> [num |-> 1, den |-> 1]]
    /\ scOut = NotCalled

\* The buffer pool as the package initialises it: every sync.Pool empty, no
\* buffer allocated yet.
MaxBuffers == 2
Buffers == 1..MaxBuffers
Tiers == {"small", "medium", "large", "xlarge"}
NoBuffer == [st |-> "unborn", len |-> 0, cap |-> 0, appends |-> 0]
NoGet == [size |-> 0, tier |-> "none", len |-> 0, cap |-> 0]
InitBufIdle ==
    /\ globalBufferPool = [t \in Tiers |-> {}]
    /\ heap = [b \in Buffers |-> NoBuffer]
    /\ lastGet = NoGet

\* No payload.
\*   entry   the function the payload is given to
\*   len     len(data); magic: whether its bytes 4..11 are "ftyp" and a HEIF
\*           brand (FALSE when it is shorter than that)
\*   pool    whether the worker pool is in use (Handler.useWorkerPool,
\*           globalWorkerPool != nil)
\*   pc      the function the payload is in: "new", the name of a function,
\*           "queue" (in p.jobs), "rejected", "decoded"
\*   sizeOk, magicOk   ValidateFile / isValidHEIF has accepted it
\*   queued, decoded   it was sent on p.jobs / given to goheif.Decode
NoPayload == [entry |-> "none", len |-> 0, magic |-> FALSE, pool |-> FALSE,
              pc |-> "new", sizeOk |-> FALSE, magicOk |-> FALSE,
              queued |-> FALSE, decoded |-> FALSE]
InitPayIdle == pay = NoPayload

\* No job whose conversion variant is to be picked.
NotEncoded == [src |-> "none", q |-> 0]
NoSelection == [scale |-> [num |-> 1, den |-> 1], quality |-> 0,
                worker |-> "none", fallback |-> "none", enc |-> NotEncoded]
InitSelIdle == sel = NoSelection

\* No run of scaleYCbCrNearest.
NoNearest == [src |-> NilImage, dst |-> NilImage, pc |-> "idle", y |-> 0]
InitNearestIdle == nearest = NoNearest

InitFnIdle ==
    /\ InitEstIdle
    /\ InitScaleIdle
    /\ InitBufIdle
    /\ InitPayIdle
    /\ InitSelIdle
    /\ InitNearestIdle

\* The parts of the service a specification does not exercise.
InitExtIdle ==
    /\ req = [r \in Callers |-> NoRequest]
    /\ NewRateLimiter(1, 1)
    /\ InitFnIdle

Init ==
    /\ \E n \in 0..MaxWorkers : NewWorkerPool(n)
    /\ job = [j \in Clients |-> NoJob]
    /\ client = [c \in Procs |-> IdleClient]
    /\ stopPc = "idle"
    /\ stopStarted = FALSE
    /\ stopQueued = 0
    /\ sem = 0
    /\ active = 0
    /\ clMax = 1
    /\ caller = [c \in Callers |-> [pc |-> "idle", got |-> "none"]]
    /\ InitExtIdle

\* ------------------------------------------------------------- Start
\* Start without the Once: the closure runs on every call.
OnceDoRunsAgain(o) == o # "running"

\* p.once.Do(f): f runs for the first caller only.
OnceDoRuns(o) == o = "new"

\* Where a caller goes when p.Start() has returned: Start's own caller is
\* finished, Submit goes on to its select.
AfterStart(cl) ==
    IF cl.op = "start" THEN IdleClient
    ELSE [cl EXCEPT !.pc = "select"]

\* pool.Start() called directly, any number of times.
CallStart(c) ==
    /\ c = Starter
    /\ client[c].pc = "idle"
    /\ client' = [client EXCEPT ![c] = [IdleClient EXCEPT !.pc = "start",
                                                          !.op = "start"]]
    /\ UNCHANGED <<workers, jobs, closed, once, spawnIdx, wg, wst, wjob,
                   spawned, job, stopPc, stopStarted, stopQueued>>
    /\ UNCHANGED <<clVars, extVars>>

\* once.Do finds the closure not yet run and runs it.
StartBegin(c) ==
    /\ client[c].pc = "start"
    /\ OnceDoRuns(once)
    /\ once' = "running"
    /\ spawnIdx' = 0
    /\ client' = [client EXCEPT ![c].pc = "spawn"]
    /\ UNCHANGED <<workers, jobs, closed, wg, wst, wjob, spawned, job,
                   stopPc, stopStarted, stopQueued>>
    /\ UNCHANGED <<clVars, extVars>>

\* One iteration of `for i := 0; i < p.workers; i++`.
StartSpawn(c) ==
    /\ client[c].pc = "spawn"
    /\ spawnIdx < workers
    /\ wg' = wg + 1
    /\ wst' = [wst EXCEPT ![spawnIdx + 1] = "recv"]
    /\ spawned' = spawned + 1
    /\ spawnIdx' = spawnIdx + 1
    /\ UNCHANGED <<workers, jobs, closed, once, wjob, job, client,
                   stopPc, stopStarted, stopQueued>>
    /\ UNCHANGED <<clVars, extVars>>

\* The loop is over; once.Do marks the closure as run and returns.
StartEnd(c) ==
    /\ client[c].pc = "spawn"
    /\ spawnIdx >= workers
    /\ once' = "done"
    /\ client' = [client EXCEPT ![c] = AfterStart(client[c])]
    /\ UNCHANGED <<workers, jobs, closed, spawnIdx, wg, wst, wjob, spawned,
                   job, stopPc, stopStarted, stopQueued>>
    /\ UNCHANGED <<clVars, extVars>>

\* once.Do finds the closure already run (a caller that arrives while it
\* is running waits on the Once's mutex until it has finished).
StartNoop(c) ==
    /\ client[c].pc = "start"
    /\ once = "done"
    /\ client' = [client EXCEPT ![c] = AfterStart(client[c])]
    /\ UNCHANGED <<workers, jobs, closed, once, spawnIdx, wg, wst, wjob,
                   spawned, job, stopPc, stopStarted, stopQueued>>
    /\ UNCHANGED <<clVars, extVars>>

\* ------------------------------------------------------------ Submit
\* A caller's record at the start of one Submit: ctx0 remembers whether the
\* context was already done when Submit was called.
BeginAttempt(cl) ==
    [cl EXCEPT !.pc = "start", !.ctx0 = cl.ctx, !.att = cl.att + 1]

\* Submit(ctx, data, scale, quality), called on a pool that is not stopped.
CallSubmit(c, cancelled) ==
    /\ c \in Clients
    /\ client[c].pc = "idle"
    /\ ~closed
    /\ client' = [client EXCEPT ![c] =
            BeginAttempt([IdleClient EXCEPT !.op = "submit",
                                            !.ctx = cancelled])]
    /\ UNCHANGED <<workers, jobs, closed, once, spawnIdx, wg, wst, wjob,
                   spawned, job, stopPc, stopStarted, stopQueued>>
    /\ UNCHANGED <<clVars, extVars>>

\* A send that takes the buffer for free while it holds cap jobs.
SendReadyOffByOne(q, n) == Len(q) <= QueueCap(n)

\* `case p.jobs <- job` can proceed: the buffer has room.  With cap = 0
\* (workers = 0) there is no receiver at all, so the send is never ready.
SendReady(q, n) == Len(q) < QueueCap(n)

\* A SubmitWithRetry that retries on every error of Submit.
RetryOnAnyError(o) == o.kind # "ok"

\* SubmitWithRetry goes round its loop again on this error of Submit.
RetryOn(o) == o.kind = "busy"

\* What the caller of Submit does with the (data, err) it returned.  A
\* direct caller is done; SubmitWithRetry returns it unless it is
\* ErrPoolBusy, which it keeps in lastErr before backing off.  The history
\* field first ends with the Submit it describes.
SubmitReturns(cl, o) ==
    LET r == [cl EXCEPT !.out = o, !.first = "none"] IN
    IF cl.op = "submit"
    THEN [r EXCEPT !.pc = "done", !.ret = o]
    ELSE IF o.kind = "ok"
    THEN [r EXCEPT !.pc = "done", !.ret = o]
    ELSE IF ~RetryOn(o)
    THEN [r EXCEPT !.pc = "done", !.ret = o]
    ELSE [r EXCEPT !.pc = "backoff", !.lastErr = o]

\* outer select, `case <-ctx.Done()`
SubmitCtxDone(c) ==
    /\ client[c].pc = "select"
    /\ client[c].ctx
    /\ client' = [client EXCEPT ![c] = SubmitReturns(client[c], CtxErr)]
    /\ UNCHANGED <<workers, jobs, closed, once, spawnIdx, wg, wst, wjob,
                   spawned, job, stopPc, stopStarted, stopQueued>>
    /\ UNCHANGED <<clVars, extVars>>

\* outer select, `case p.jobs <- job`
SubmitEnqueue(c) ==
    /\ client[c].pc = "select"
    /\ SendReady(jobs, workers)
    /\ jobs' = Append(jobs, c)
    /\ job' = [job EXCEPT ![c].enq = TRUE]
    /\ client' = [client EXCEPT ![c].pc = "wait",
                                ![c].first = IF client[c].ctx THEN "ctx"
                                             ELSE "none"]
    /\ UNCHANGED <<workers, closed, once, spawnIdx, wg, wst, wjob, spawned,
                   stopPc, stopStarted, stopQueued>>
    /\ UNCHANGED <<clVars, extVars>>

\* outer select, `default`: taken only when no other case is ready
SubmitBusy(c) ==
    /\ client[c].pc = "select"
    /\ ~client[c].ctx
    /\ ~SendReady(jobs, workers)
    /\ client' = [client EXCEPT ![c] = SubmitReturns(client[c], ErrPoolBusy)]
    /\ UNCHANGED <<workers, jobs, closed, once, spawnIdx, wg, wst, wjob,
                   spawned, job, stopPc, stopStarted, stopQueued>>
    /\ UNCHANGED <<clVars, extVars>>

\* inner select, `case <-ctx.Done()`
WaitCtxDone(c) ==
    /\ client[c].pc = "wait"
    /\ client[c].ctx
    /\ client' = [client EXCEPT ![c] = SubmitReturns(client[c], CtxErr)]
    /\ UNCHANGED <<workers, jobs, closed, once, spawnIdx, wg, wst, wjob,
                   spawned, job, stopPc, stopStarted, stopQueued>>
    /\ UNCHANGED <<clVars, extVars>>

\* inner select, `case result := <-resultChan`
WaitResult(c) ==
    /\ client[c].pc = "wait"
    /\ job[c].rchan # "empty"
    /\ client' = [client EXCEPT ![c] =
                    SubmitReturns(client[c], ResultOf(c, job[c].rchan))]
    /\ job' = [job EXCEPT ![c].rchan = "empty"]
    /\ UNCHANGED <<workers, jobs, closed, once, spawnIdx, wg, wst, wjob,
                   spawned, stopPc, stopStarted, stopQueued>>
    /\ UNCHANGED <<clVars, extVars>>

\* The caller's context is cancelled (or its deadline passes) while a
\* Submit or SubmitWithRetry is in progress.
Cancel(c) ==
    /\ client[c].pc \in {"start", "spawn", "select", "wait", "backoff"}
    /\ client[c].op \in {"submit", "retry"}
    /\ ~client[c].ctx
    /\ client' = [client EXCEPT ![c].ctx = TRUE,
                                ![c].first =
                                    IF /\ client[c].pc = "wait"
                                       /\ client[c].first = "none"
                                    THEN "ctx" ELSE client[c].first]
    /\ UNCHANGED <<workers, jobs, closed, once, spawnIdx, wg, wst, wjob,
                   spawned, job, stopPc, stopStarted, stopQueued>>
    /\ UNCHANGED <<clVars, extVars>>

\* --------------------------------------------------- SubmitWithRetry
\* `for i := 0; i < maxRetries; i++`
LoopContinues(i, maxRetries) == i < maxRetries

\* SubmitWithRetry(ctx, data, scale, quality, maxRetries): the loop head,
\* followed by the first Submit when the loop is entered.
CallRetry(c, cancelled, m) ==
    /\ c \in Clients
    /\ client[c].pc = "idle"
    /\ ~closed
    /\ client' = [client EXCEPT ![c] =
          IF LoopContinues(0, m)
          THEN BeginAttempt([IdleClient EXCEPT !.op = "retry",
                                               !.ctx = cancelled, !.max = m])
          ELSE [IdleClient EXCEPT !.op = "retry", !.ctx = cancelled,
                                  !.max = m, !.pc = "done", !.ret = NilNil]]
    /\ UNCHANGED <<workers, jobs, closed, once, spawnIdx, wg, wst, wjob,
                   spawned, job, stopPc, stopStarted, stopQueued>>
    /\ UNCHANGED <<clVars, extVars>>

\* backoff select, `case <-ctx.Done()`
BackoffCtxDone(c) ==
    /\ client[c].pc = "backoff"
    /\ client[c].ctx
    /\ client' = [client EXCEPT ![c].pc = "done", ![c].ret = CtxErr]
    /\ UNCHANGED <<workers, jobs, closed, once, spawnIdx, wg, wst, wjob,
                   spawned, job, stopPc, stopStarted, stopQueued>>
    /\ UNCHANGED <<clVars, extVars>>

\* backoff select, `case <-time.After(waitTime)`, then i++ and the loop
\* head: the next Submit, or `return nil, lastErr`.
BackoffTimer(c) ==
    /\ client[c].pc = "backoff"
    /\ client' = [client EXCEPT ![c] =
          IF LoopContinues(client[c].i + 1, client[c].max)
          THEN BeginAttempt([client[c] EXCEPT !.i = client[c].i + 1])
          ELSE [client[c] EXCEPT !.pc = "done", !.i = client[c].i + 1,
                                 !.ret = client[c].lastErr]]
    /\ UNCHANGED <<workers, jobs, closed, once, spawnIdx, wg, wst, wjob,
                   spawned, job, stopPc, stopStarted, stopQueued>>
    /\ UNCHANGED <<clVars, extVars>>

\* ------------------------------------------------------------ worker
\* What `for job := range p.jobs` leaves in the channel after a receive.
QueueAfterTake(q) == Tail(q)

\* `for job := range p.jobs` receives the oldest queued job.
WorkerTake(w) ==
    /\ wst[w] = "recv"
    /\ jobs # << >>
    /\ wst' = [wst EXCEPT ![w] = "busy"]
    /\ wjob' = [wjob EXCEPT ![w] = Head(jobs)]
    /\ jobs' = QueueAfterTake(jobs)
    /\ job' = [job EXCEPT ![Head(jobs)].taken = job[Head(jobs)].taken + 1]
    /\ UNCHANGED <<workers, closed, once, spawnIdx, wg, spawned,
                   client, stopPc, stopStarted, stopQueued>>
    /\ UNCHANGED <<clVars, extVars>>

\* A result channel made without its one-slot buffer: the non-blocking send
\* finds no receiver parked and drops the Result.
SendResultUnbuffered(jr, r) == [jr EXCEPT !.dropped = jr.dropped + 1]

\* The worker's non-blocking send of a Result: it goes into the result
\* channel when its one-slot buffer is free and is dropped otherwise.
SendResult(jr, r) ==
    IF jr.rchan = "empty"
    THEN [jr EXCEPT !.rchan = r, !.sent = jr.sent + 1]
    ELSE [jr EXCEPT !.dropped = jr.dropped + 1]

\* A worker that sends the Result on the channel of another job.
ResultChanOfOther(j) == (j % NumClients) + 1

\* `job.Result <- result`: the channel the worker sends on is the Result
\* field of the Job it received, the one whose Data it converted.
ResultChanOf(j) == j

\* A plain send on a result channel without buffer: it proceeds only while
\* the submitter is parked on the channel.
SendProceedsUnbuffered(cl) == cl.pc = "wait"

\* `select { case job.Result <- result: ... default: ... }` takes one of its
\* branches at once, whatever the submitter cl is doing.
SendProceeds(cl) == TRUE

\* A worker that converts a job again when its conversion failed.
AfterConvertRetry(r) == IF r = "fail" THEN "busy" ELSE "recv"

\* What the worker does after its send: the next iteration of the range
\* loop, whatever result.Err is.
AfterConvert(r) == "recv"

\* The conversion of the held job returns r, the select sends it, and the
\* worker goes back to the receive of its range loop.
WorkerFinish(w, r) ==
    /\ wst[w] = "busy"
    /\ SendProceeds(client[wjob[w]])
    /\ job' = IF ResultChanOf(wjob[w]) = wjob[w]
              THEN [job EXCEPT ![wjob[w]] =
                      SendResult([job[wjob[w]] EXCEPT !.conv = job[wjob[w]].conv + 1], r)]
              ELSE [job EXCEPT ![wjob[w]].conv = job[wjob[w]].conv + 1,
                               ![ResultChanOf(wjob[w])] =
                                   SendResult(job[ResultChanOf(wjob[w])], r)]
    /\ wst' = [wst EXCEPT ![w] = AfterConvert(r)]
    /\ wjob' = [wjob EXCEPT ![w] = IF AfterConvert(r) = "recv" THEN 0
                                   ELSE wjob[w]]
    /\ client' = [client EXCEPT ![wjob[w]].first =
                    IF /\ client[wjob[w]].pc = "wait"
                       /\ client[wjob[w]].first = "none"
                       /\ job'[wjob[w]].rchan # "empty"
                    THEN "res" ELSE client[wjob[w]].first]
    /\ UNCHANGED <<workers, jobs, closed, once, spawnIdx, wg, spawned,
                   stopPc, stopStarted, stopQueued>>
    /\ UNCHANGED <<clVars, extVars>>

\* The range loop ends on the closed and drained channel; `defer wg.Done()`.
WorkerExit(w) ==
    /\ wst[w] = "recv"
    /\ closed
    /\ jobs = << >>
    /\ wst' = [wst EXCEPT ![w] = "exited"]
    /\ wg' = wg - 1
    /\ UNCHANGED <<workers, jobs, closed, once, spawnIdx, wjob, spawned, job,
                   client, stopPc, stopStarted, stopQueued>>
    /\ UNCHANGED <<clVars, extVars>>

\* -------------------------------------------------------------- Stop
\* Stop is called when no Submit is about to send: every caller has returned,
\* has not called yet, or has enqueued its job and waits for the Result.
NoSubmitBeforeSend ==
    \A c \in Clients : client[c].pc \in {"idle", "wait", "done"}

\* close(p.jobs)
StopClose ==
    /\ stopPc = "idle"
    /\ NoSubmitBeforeSend
    /\ closed' = TRUE
    /\ stopPc' = "wait"
    /\ stopStarted' = (once = "done")
    /\ stopQueued' = Len(jobs)
    /\ UNCHANGED <<workers, jobs, once, spawnIdx, wg, wst, wjob, spawned, job,
                   client>>
    /\ UNCHANGED <<clVars, extVars>>

\* A Stop that does not wait for the workers.
WaitGroupNoWait(n) == TRUE

\* wg.Wait() returns when the counter is zero
WaitGroupZero(n) == n = 0

StopReturn ==
    /\ stopPc = "wait"
    /\ WaitGroupZero(wg)
    /\ stopPc' = "done"
    /\ UNCHANGED <<workers, jobs, closed, once, spawnIdx, wg, wst, wjob,
                   spawned, job, client, stopStarted, stopQueued>>
    /\ UNCHANGED <<clVars, extVars>>

\* The steps of a call in progress, common to every caller.
ProcProgress(c) ==
    \/ StartBegin(c)
    \/ StartSpawn(c)
    \/ StartEnd(c)
    \/ StartNoop(c)
    \/ SubmitCtxDone(c)
    \/ SubmitEnqueue(c)
    \/ SubmitBusy(c)
    \/ WaitCtxDone(c)
    \/ WaitResult(c)

ClientStep(c) ==
    \/ ProcProgress(c)
    \/ Cancel(c)

\* One iteration of a worker's range loop, in two steps.
WorkerStep(w) ==
    \/ WorkerTake(w)
    \/ \E r \in ConvResults : WorkerFinish(w, r)

\* The pool under direct callers of Submit.
NextSubmit ==
    \/ \E c \in Clients, cancelled \in BOOLEAN : CallSubmit(c, cancelled)
    \/ \E c \in Procs : ClientStep(c)
    \/ \E w \in Workers : WorkerStep(w)

\* The pool under direct callers of Submit, Start and Stop.
Next ==
    \/ NextSubmit
    \/ CallStart(Starter)
    \/ StopClose
    \/ \E w \in Workers : WorkerExit(w)
    \/ StopReturn

Spec == Init /\ [][Next]_vars

\* A pool that is not stopped, under direct callers of Submit.  Goroutines
\* that can run are eventually run: callers in the middle of a call and
\* workers.  Nothing obliges a context to be cancelled or a caller to call.
FairSpec ==
    /\ Init
    /\ [][NextSubmit]_vars
    /\ \A c \in Clients : WF_vars(ProcProgress(c))
    /\ \A w \in Workers : WF_vars(WorkerStep(w))

\* The pool under callers of SubmitWithRetry (the first NumRetriers
\* callers) and of Submit (the others).
NextRetry ==
    \/ \E c \in Retriers, cancelled \in BOOLEAN, m \in 0..MaxRetries :
          CallRetry(c, cancelled, m)
    \/ \E c \in Clients \ Retriers, cancelled \in BOOLEAN :
          CallSubmit(c, cancelled)
    \/ \E c \in Clients : ClientStep(c)
    \/ \E c \in Retriers : BackoffCtxDone(c)
    \/ \E c \in Retriers : BackoffTimer(c)
    \/ \E w \in Workers : WorkerStep(w)

SpecRetry == Init /\ [][NextRetry]_vars

\* ------------------------------------------- Submit and Stop, unordered
\* Submit(ctx, data, scale, quality) called at any time, also on a pool that
\* Stop has closed: nothing in Submit or in the WorkerPool tells the two
\* apart.
CallSubmitAnytime(c, cancelled) ==
    /\ c \in Clients
    /\ client[c].pc = "idle"
    /\ client' = [client EXCEPT ![c] =
            BeginAttempt([IdleClient EXCEPT !.op = "submit",
                                            !.ctx = cancelled])]
    /\ UNCHANGED <<workers, jobs, closed, once, spawnIdx, wg, wst, wjob,
                   spawned, job, stopPc, stopStarted, stopQueued>>
    /\ UNCHANGED <<clVars, extVars>>

\* outer select, `case p.jobs <- job` on the closed channel: a send on a
\* closed channel is ready and panics when the select picks it.
SubmitSendClosed(c) ==
    /\ client[c].pc = "select"
    /\ closed
    /\ client' = [client EXCEPT ![c].pc = "panicked"]
    /\ UNCHANGED <<workers, jobs, closed, once, spawnIdx, wg, wst, wjob,
                   spawned, job, stopPc, stopStarted, stopQueued>>
    /\ UNCHANGED <<clVars, extVars>>

\* Stop called at any time: close(p.jobs), whatever the callers of Submit
\* are doing.
StopCloseAnytime ==
    /\ stopPc = "idle"
    /\ closed' = TRUE
    /\ stopPc' = "wait"
    /\ stopStarted' = (once = "done")
    /\ stopQueued' = Len(jobs)
    /\ UNCHANGED <<workers, jobs, once, spawnIdx, wg, wst, wjob, spawned, job,
                   client>>
    /\ UNCHANGED <<clVars, extVars>>

\* A second call of Stop: close of the closed channel panics.
StopAgain ==
    /\ stopPc \in {"wait", "done"}
    /\ closed
    /\ stopPc' = "panicked"
    /\ UNCHANGED <<workers, jobs, closed, once, spawnIdx, wg, wst, wjob,
                   spawned, job, client, stopStarted, stopQueued>>
    /\ UNCHANGED <<clVars, extVars>>

\* The steps of a Submit on a pool that may be closed: the send case and
\* the default case behave as before only while the channel is open.
SubmitStepAnytime(c) ==
    \/ StartBegin(c)
    \/ StartSpawn(c)
    \/ StartEnd(c)
    \/ StartNoop(c)
    \/ SubmitCtxDone(c)
    \/ ~closed /\ SubmitEnqueue(c)
    \/ ~closed /\ SubmitBusy(c)
    \/ SubmitSendClosed(c)
    \/ WaitCtxDone(c)
    \/ WaitResult(c)

\* The pool under callers of Submit and Stop in any order.  A panic ends
\* the goroutine it is raised in; what becomes of the process is up to that
\* goroutine's caller.
NextStop ==
    \/ \E c \in Clients, cancelled \in BOOLEAN : CallSubmitAnytime(c, cancelled)
    \/ \E c \in Clients : SubmitStepAnytime(c)
    \/ \E w \in Workers : WorkerStep(w)
    \/ \E w \in Workers : WorkerExit(w)
    \/ StopCloseAnytime
    \/ StopReturn
    \/ StopAgain

SpecStop == Init /\ [][NextStop]_vars

\* ------------------------------------------------- faults in a worker
\* The conversion of the held job panics (a runtime fault in the encoder
\* that encodeImage calls).  Neither encodeImage, nor the Convert* functions,
\* nor worker recovers: the panic unwinds the worker goroutine, running its
\* deferred wg.Done(), and the Go runtime then ends the whole process.
WorkerPanic(w) ==
    /\ wst[w] = "busy"
    /\ wst' = [wst EXCEPT ![w] = "panicked"]
    /\ wg' = wg - 1
    /\ UNCHANGED <<workers, jobs, closed, once, spawnIdx, wjob, spawned, job,
                   client, stopPc, stopStarted, stopQueued>>
    /\ UNCHANGED <<clVars, extVars>>

\* No goroutine has ended the process.
ProcessAlive == \A w \in Workers : wst[w] # "panicked"

\* The pool under direct callers of Submit, with encoders that can fault.
NextFault ==
    \/ ProcessAlive /\ NextSubmit
    \/ \E w \in Workers : ProcessAlive /\ WorkerPanic(w)

SpecFault == Init /\ [][NextFault]_vars

\* =====================================================================
\* ConcurrencyLimiter (internal/middleware/concurrency.go)
\* =====================================================================
\* A caller's pc: "idle", "acq" (its token is in the semaphore, before
\* cl.mu.Lock() of Acquire), "hold" (Acquire returned true), "rel" (its
\* token is out of the semaphore, before cl.mu.Lock() of Release).
\* got: what its last call returned: "true" or "false" from Acquire,
\* "released" from Release, "none" before any call.
IdleCaller == [pc |-> "idle", got |-> "none"]

\* The pool, untouched, while the limiter is exercised.
InitPoolIdle ==
    /\ NewWorkerPool(0)
    /\ job = [j \in Clients |-> NoJob]
    /\ client = [c \in Procs |-> IdleClient]
    /\ stopPc = "idle"
    /\ stopStarted = FALSE
    /\ stopQueued = 0

NewConcurrencyLimiter(max) ==
    /\ sem = 0
    /\ active = 0
    /\ clMax = max
    /\ caller = [c \in Callers |-> IdleCaller]

InitCL ==
    /\ InitPoolIdle
    /\ \E max \in 1..MaxSlots : NewConcurrencyLimiter(max)
    /\ InitExtIdle

\* A semaphore made one slot too large.
SlotFreeOffByOne(n, max) == n <= max

\* `case cl.semaphore <- struct{}{}` can proceed: the buffer has room.
SlotFree(n, max) == n < max

\* Acquire, `case cl.semaphore <- struct{}{}`
AcquireSend(c) ==
    /\ caller[c].pc = "idle"
    /\ SlotFree(sem, clMax)
    /\ sem' = sem + 1
    /\ caller' = [caller EXCEPT ![c].pc = "acq"]
    /\ UNCHANGED <<active, clMax>>
    /\ UNCHANGED <<poolVars, extVars>>

\* Acquire, `default: return false`
AcquireFull(c) ==
    /\ caller[c].pc = "idle"
    /\ ~SlotFree(sem, clMax)
    /\ caller' = [caller EXCEPT ![c].got = "false"]
    /\ UNCHANGED <<sem, active, clMax>>
    /\ UNCHANGED <<poolVars, extVars>>

\* Acquire, the critical section `cl.active++`, then `return true`
AcquireCount(c) ==
    /\ caller[c].pc = "acq"
    /\ active' = active + 1
    /\ caller' = [caller EXCEPT ![c] = [pc |-> "hold", got |-> "true"]]
    /\ UNCHANGED <<sem, clMax>>
    /\ UNCHANGED <<poolVars, extVars>>

\* Release, `<-cl.semaphore`, called by a caller whose Acquire returned true
ReleaseRecv(c) ==
    /\ caller[c].pc = "hold"
    /\ sem > 0
    /\ sem' = sem - 1
    /\ caller' = [caller EXCEPT ![c].pc = "rel"]
    /\ UNCHANGED <<active, clMax>>
    /\ UNCHANGED <<poolVars, extVars>>

\* Release, the critical section `cl.active--`, then return
ReleaseCount(c) ==
    /\ caller[c].pc = "rel"
    /\ active' = active - 1
    /\ caller' = [caller EXCEPT ![c] = [pc |-> "idle", got |-> "released"]]
    /\ UNCHANGED <<sem, clMax>>
    /\ UNCHANGED <<poolVars, extVars>>

NextCL ==
    \E c \in Callers :
        \/ AcquireSend(c)
        \/ AcquireFull(c)
        \/ AcquireCount(c)
        \/ ReleaseRecv(c)
        \/ ReleaseCount(c)

SpecCL == InitCL /\ [][NextCL]_vars

\* =====================================================================
\* ConcurrencyLimit middleware (internal/middleware/concurrency.go 55-74)
\* =====================================================================
\* Request r is served by caller r of the limiter.  stage:
\*   "new"       not arrived
\*   "acquire"   in the middleware's handler func, at `cl.Acquire()`
\*   "handler"   admitted: `defer cl.Release()` registered, next.ServeHTTP runs
\*   "deferred"  next.ServeHTTP has exited (returned or panicked); the
\*               deferred call is about to run
\*   "release"   in cl.Release()
\*   "done"      the middleware's handler func has exited

\* The request reaches the middleware: http.HandlerFunc(func(w, r) {...
MwServeHTTP(r) ==
    /\ req[r].stage = "new"
    /\ req' = [req EXCEPT ![r].stage = "acquire"]
    /\ UNCHANGED <<poolVars, clVars, rlVars, fnVars>>

\* `cl.Acquire()` of the middleware.
MwAcquire(r) ==
    /\ req[r].stage = "acquire"
    /\ caller[r].got = "none"
    /\ \/ AcquireSend(r)
       \/ AcquireFull(r)

MwAcquireCount(r) ==
    /\ req[r].stage = "acquire"
    /\ AcquireCount(r)

\* `if !cl.Acquire() { ... w.WriteHeader(http.StatusServiceUnavailable) ... return }`
MwReject(r) ==
    /\ req[r].stage = "acquire"
    /\ caller[r] = [pc |-> "idle", got |-> "false"]
    /\ req' = [req EXCEPT ![r].stage = "done", ![r].status = 503]
    /\ UNCHANGED <<poolVars, clVars, rlVars, fnVars>>

\* Acquire returned true: `defer cl.Release()`, then `next.ServeHTTP(w, r)`.
MwAdmit(r) ==
    /\ req[r].stage = "acquire"
    /\ caller[r] = [pc |-> "hold", got |-> "true"]
    /\ req' = [req EXCEPT ![r].stage = "handler", ![r].acq = @ + 1]
    /\ UNCHANGED <<poolVars, clVars, rlVars, fnVars>>

\* A Release that is an ordinary last statement: a panic skips it.
AfterHandlerNoDefer(how) == IF how = "panic" THEN "done" ELSE "deferred"

\* Where control goes when next.ServeHTTP exits: the deferred call runs on
\* a return and on a panic alike.
AfterHandler(how) == "deferred"

HandlerExits == {"return", "panic"}

\* next.ServeHTTP(w, r) exits.
MwHandlerExit(r, how) ==
    /\ req[r].stage = "handler"
    /\ how \in HandlerExits
    /\ req' = [req EXCEPT ![r].stage = AfterHandler(how), ![r].how = how,
                          ![r].status = IF how = "return" THEN 200 ELSE 0]
    /\ UNCHANGED <<poolVars, clVars, rlVars, fnVars>>

\* The deferred `cl.Release()` is called.
MwRunDeferred(r) ==
    /\ req[r].stage = "deferred"
    /\ req' = [req EXCEPT ![r].stage = "release", ![r].rel = @ + 1]
    /\ UNCHANGED <<poolVars, clVars, rlVars, fnVars>>

\* The body of the deferred Release.
MwRelease(r) ==
    /\ req[r].stage = "release"
    /\ \/ ReleaseRecv(r)
       \/ ReleaseCount(r)

\* Release has returned: the handler func exits (a panic goes on upwards).
MwExit(r) ==
    /\ req[r].stage = "release"
    /\ caller[r] = [pc |-> "idle", got |-> "released"]
    /\ req' = [req EXCEPT ![r].stage = "done"]
    /\ UNCHANGED <<poolVars, clVars, rlVars, fnVars>>

InitMW ==
    /\ InitPoolIdle
    /\ \E max \in 1..MaxSlots : NewConcurrencyLimiter(max)
    /\ req = [r \in Callers |-> NoRequest]
    /\ NewRateLimiter(1, 1)
    /\ InitFnIdle

NextMW ==
    \E r \in Callers :
        \/ MwServeHTTP(r)
        \/ MwAcquire(r)
        \/ MwAcquireCount(r)
        \/ MwReject(r)
        \/ MwAdmit(r)
        \/ \E how \in HandlerExits : MwHandlerExit(r, how)
        \/ MwRunDeferred(r)
        \/ MwRelease(r)
        \/ MwExit(r)

SpecMW == InitMW /\ [][NextMW]_vars

\* =====================================================================
\* RateLimiter (internal/middleware/ratelimit.go)
\* =====================================================================
\* A bucket created with one token more than the code leaves in it.
FreshTokensFull(b) == b * Unit

\* `tokens: float64(rl.burst) - 1`
FreshTokens(b) == (b - 1) * Unit

\* `tokensToAdd := elapsed * float64(rl.rate)`, elapsed in ticks
TokensToAdd(elapsed, r) == elapsed * r

\* A refill that is never capped.
CapTokensNone(t, b) == t

\* `if b.tokens > float64(rl.burst) { b.tokens = float64(rl.burst) }`
CapTokens(t, b) == IF t > b * Unit THEN b * Unit ELSE t

\* The bucket's tokens after the refill and the cap, before the decision.
Refilled(bk, t, r, b) == CapTokens(bk.tokens + TokensToAdd(t - bk.lastRef, r), b)

\* `if b.tokens >= 1`
HasToken(t) == t >= Unit

\* What Allow returns for bucket bk at time t.
AllowDecision(bk, t, r, b) ==
    IF ~bk.exists THEN TRUE ELSE HasToken(Refilled(bk, t, r, b))

\* The bucket Allow leaves behind.
AllowBucket(bk, t, r, b) ==
    IF ~bk.exists
    THEN [exists |-> TRUE, tokens |-> FreshTokens(b), lastRef |-> t]
    ELSE [exists |-> TRUE,
          tokens |-> IF HasToken(Refilled(bk, t, r, b))
                     THEN Refilled(bk, t, r, b) - Unit
                     ELSE Refilled(bk, t, r, b),
          lastRef |-> t]

\* An Allow that writes every bucket of the map.
TouchesAll(k, j) == TRUE

\* `rl.limits[ip]`: Allow(k) works on the entry of k.
Touches(k, j) == j = k

BoolStr(x) == IF x THEN "true" ELSE "false"

\* rl.Allow(k), under rl.mu.
Allow(k) ==
    /\ k \in AllKeys
    /\ limits' = [j \in AllKeys |->
                    IF Touches(k, j) THEN AllowBucket(limits[j], now, rate, burst)
                    ELSE limits[j]]
    /\ rlRet' = [key |-> k, ok |-> BoolStr(AllowDecision(limits[k], now, rate, burst))]
    /\ streak' = [streak EXCEPT ![k] =
                    IF ~limits[k].exists THEN 1
                    ELSE IF @ = 0 THEN 0
                    ELSE IF @ <= burst THEN @ + 1 ELSE @]
    /\ lastCall' = [lastCall EXCEPT ![k] =
                    [at |-> now,
                     ok |-> BoolStr(AllowDecision(limits[k], now, rate, burst)),
                     prev |-> @.ok, prevAt |-> @.at]]
    /\ UNCHANGED <<rate, burst, now>>

\* Time passes between two readings of the clock: one tick, or an idle
\* period longer than ttl.
LongIdle == Ttl + 1
Durations == {1, LongIdle}
Advances(t) == (t % LongIdle) + (t \div LongIdle)

Advance(d) ==
    /\ d \in Durations
    /\ Advances(now) < MaxAdvances
    /\ now' = now + d
    /\ streak' = [k \in AllKeys |-> 0]
    /\ UNCHANGED <<rate, burst, limits, rlRet, lastCall, charged, admits>>
    /\ UNCHANGED <<poolVars, clVars, req, fnVars>>

\* `if now.Sub(b.lastRef) > rl.ttl { delete(rl.limits, ip) }`
Stale(bk, t) == bk.exists /\ t - bk.lastRef > Ttl

\* One round of cleanup's loop, under rl.mu.
Sweep ==
    /\ \E k \in AllKeys : Stale(limits[k], now)
    /\ limits' = [k \in AllKeys |->
                    IF Stale(limits[k], now) THEN NoBucket ELSE limits[k]]
    /\ UNCHANGED <<rate, burst, now, rlRet, streak, lastCall, charged, admits>>
    /\ UNCHANGED <<poolVars, clVars, req, fnVars>>

\* The keys Allow is called with when the limiter is exercised on its own:
\* two connections of one client address.
RLKeys == {<<"a", ":", "1">>, <<"a", ":", "2">>}

AllowCall(k) ==
    /\ Allow(k)
    /\ UNCHANGED <<charged, admits>>
    /\ UNCHANGED <<poolVars, clVars, req, fnVars>>

InitRL ==
    /\ InitPoolIdle
    /\ NewConcurrencyLimiter(1)
    /\ req = [r \in Callers |-> NoRequest]
    /\ \E r \in 0..MaxRate, b \in 1..MaxBurst : NewRateLimiter(r, b)
    /\ InitFnIdle

NextRL ==
    \/ \E k \in RLKeys : AllowCall(k)
    \/ \E d \in Durations : Advance(d)
    \/ Sweep

SpecRL == InitRL /\ [][NextRL]_vars

\* rl.Allow(k), with the time of each admission written down.
AllowTimed(k) ==
    /\ Allow(k)
    /\ admits' = [admits EXCEPT ![k] =
                    IF AllowDecision(limits[k], now, rate, burst)
                    THEN Append(@, now) ELSE @]
    /\ UNCHANGED charged
    /\ UNCHANGED <<poolVars, clVars, req, fnVars>>

\* One client address under the limiter, the clock and the sweep.
RateKey == <<"a", ":", "1">>

NextRate ==
    \/ AllowTimed(RateKey)
    \/ \E d \in Durations : Advance(d)
    \/ Sweep

SpecRate == InitRL /\ [][NextRate]_vars

\* The RateLimit middleware on request r: `ip := getIP(r)`, `rl.Allow(ip)`.
RateLimitServe(r) ==
    /\ r \in Requests
    /\ Allow(getIP(r))
    /\ charged' = IF r.xff = << >> /\ r.xri = << >>
                  THEN [charged EXCEPT ![r.ip] = @ \cup {getIP(r)}]
                  ELSE charged
    /\ UNCHANGED admits
    /\ UNCHANGED <<poolVars, clVars, req, fnVars>>

\* Requests arriving in one burst, with no time passing between them.
NextIP == \E r \in Requests : RateLimitServe(r)

SpecIP == InitRL /\ [][NextIP]_vars

\* =====================================================================
\* The assembled chain (cmd/api main):
\*   Security(RateLimit(ConcurrencyLimit(Recovery(Logger(mux)))))
\* =====================================================================
\* Request r is served by caller r of the concurrency limiter and submits,
\* if it gets that far, as client r of the worker pool.

\* The pool as main leaves it: InitGlobalWorkerPool has run Start.
StartedPool(n) ==
    /\ workers = n
    /\ jobs = << >>
    /\ closed = FALSE
    /\ once = "done"
    /\ spawnIdx = n
    /\ wg = n
    /\ wst = [w \in Workers |-> IF w <= n THEN "recv" ELSE "unborn"]
    /\ wjob = [w \in Workers |-> 0]
    /\ spawned = n

\* The requests that arrive: two connections of one address, one of another.
ChainRequests ==
    {q \in Requests : q.xff = << >> /\ q.xri = << >>
                      /\ <<q.ip, q.port>> \in {<<(<<"a">>), (<<"1">>)>>,
                                               <<(<<"b">>), (<<"1">>)>>}}

\* A rate limiter whose rejection does not end the request.
AfterRateLimitIgnored(ok) == "acquire"

\* `if !rl.Allow(ip) { ...; return }`, else `next.ServeHTTP(w, r)`
AfterRateLimit(ok) == IF ok THEN "acquire" ELSE "done"

\* Security, then the RateLimit middleware's handler func.
ChainRateLimit(r, q) ==
    /\ req[r].stage = "new"
    /\ q \in ChainRequests
    /\ Allow(getIP(q))
    /\ UNCHANGED <<charged, admits>>
    /\ req' = [req EXCEPT
                 ![r].stage = AfterRateLimit(AllowDecision(limits[getIP(q)], now, rate, burst)),
                 ![r].status = IF AllowDecision(limits[getIP(q)], now, rate, burst)
                               THEN 0 ELSE 429]
    /\ UNCHANGED <<poolVars, clVars, fnVars>>

\* Handler.Convert returns before it reaches the pool: wrong method, a
\* cancelled request, a failed validation, or a conversion done directly.
ChainHandlerSkip(r) ==
    /\ req[r].stage = "handler"
    /\ client[r].pc = "idle"
    /\ req' = [req EXCEPT ![r].stage = AfterHandler("return"), ![r].how = "return",
                          ![r].status = 400]
    /\ UNCHANGED <<poolVars, clVars, rlVars, fnVars>>

\* Handler.Convert panics before it reaches the pool; Recovery, inside the
\* concurrency limiter, recovers, writes 500 and returns.
ChainHandlerPanic(r) ==
    /\ req[r].stage = "handler"
    /\ client[r].pc = "idle"
    /\ req' = [req EXCEPT ![r].stage = AfterHandler("panic"), ![r].how = "panic",
                          ![r].status = 500]
    /\ UNCHANGED <<poolVars, clVars, rlVars, fnVars>>

\* Handler.Convert: converter.SubmitToGlobalPool(r.Context(), ...), with a
\* request whose client stays connected.
ChainSubmit(r) ==
    /\ req[r].stage = "handler"
    /\ CallSubmit(r, FALSE)

\* The HTTP status Handler.Convert writes for what Submit returned.
StatusOf(o) ==
    IF o.kind = "ok" THEN 200 ELSE IF o.kind = "busy" THEN 503 ELSE 500

\* Submit has returned: Handler.Convert writes the response and returns.
ChainHandlerDone(r) ==
    /\ req[r].stage = "handler"
    /\ client[r].pc = "done"
    /\ req' = [req EXCEPT ![r].stage = AfterHandler("return"), ![r].how = "return",
                          ![r].status = StatusOf(client[r].ret)]
    /\ UNCHANGED <<poolVars, clVars, rlVars, fnVars>>

InitChain ==
    /\ \E n \in 0..MaxWorkers : StartedPool(n)
    /\ job = [j \in Clients |-> NoJob]
    /\ client = [c \in Procs |-> IdleClient]
    /\ stopPc = "idle"
    /\ stopStarted = FALSE
    /\ stopQueued = 0
    /\ \E max \in 1..MaxSlots : NewConcurrencyLimiter(max)
    /\ req = [r \in Callers |-> NoRequest]
    /\ \E b \in 1..MaxBurst : NewRateLimiter(1, b)
    /\ InitFnIdle

NextChain ==
    \/ \E r \in Callers \cap Clients :
          \/ \E q \in ChainRequests : ChainRateLimit(r, q)
          \/ MwAcquire(r)
          \/ MwAcquireCount(r)
          \/ MwReject(r)
          \/ MwAdmit(r)
          \/ ChainHandlerSkip(r)
          \/ ChainHandlerPanic(r)
          \/ ChainSubmit(r)
          \/ StartNoop(r)
          \/ SubmitEnqueue(r)
          \/ SubmitBusy(r)
          \/ WaitResult(r)
          \/ ChainHandlerDone(r)
          \/ MwRunDeferred(r)
          \/ MwRelease(r)
          \/ MwExit(r)
    \/ \E w \in Workers : WorkerStep(w)

SpecChain == InitChain /\ [][NextChain]_vars

\* =====================================================================
\* Quality estimator (pkg/quality/adaptive.go, estimateQualitySinglePass)
\* =====================================================================
\* float64 values are modelled as a whole part and a binary fraction of
\* 24 bits, [whole |-> n, frac |-> f] standing for n + f / FracOne,
\* computed by exact integer arithmetic and rounded down.
FracOne == 16777216

minQuality == 10
maxQuality == 100

\* [q, r] with a * m = q * d + r and 0 <= r < d, for 0 <= a <= d, computed
\* without forming the product a * m.
RECURSIVE MulDiv(_, _, _)
MulDiv(a, m, d) ==
    IF m = 0 THEN [q |-> 0, r |-> 0]
    ELSE LET half == MulDiv(a, m \div 2, d)
             t == 2 * half.r + (m % 2) * a
         IN  [q |-> 2 * half.q + t \div d, r |-> t % d]

\* The quotient num / den (den > 0) as a float.
Quotient(num, den) ==
    [whole |-> num \div den, frac |-> MulDiv(num % den, FracOne, den).q]

\* `pixels := width * height`
Pixels(im) == im.w * im.h

\* `ratio := targetBytes / (float64(pixels) * compressionFactor)`, with
\* targetBytes = targetSizeKB * 1024 and compressionFactor = 0.18 = 18/100.
Ratio(pixels, targetSizeKB) == Quotient(targetSizeKB * 1024 * 100, pixels * 18)

\* One Newton-Raphson step `z = 0.5 * (z + x/z)` for fractions x, z in
\* units of 1/FracOne.
NewtonStep(z, x) == (z + MulDiv(x, FracOne, z).q) \div 2

\* sqrt: 0 for x <= 0, x itself for x >= 1, four Newton steps from z = 1
\* otherwise.
sqrt(x) ==
    IF x.whole <= 0 /\ x.frac = 0 THEN [whole |-> 0, frac |-> 0]
    ELSE IF x.whole >= 1 THEN x
    ELSE [whole |-> 0,
          frac |-> NewtonStep(NewtonStep(NewtonStep(NewtonStep(FracOne, x.frac),
                                                   x.frac), x.frac), x.frac)]

\* 100 * x
Times100(x) ==
    [whole |-> 100 * x.whole + (100 * x.frac) \div FracOne,
     frac |-> (100 * x.frac) % FracOne]

\* A correction with its signs exchanged.
DensityCorrectionReversed(pixels) ==
    IF pixels > 20000000 THEN 5 ELSE IF pixels < 3000000 THEN -5 ELSE 0

\* The density correction: -5 above 20 megapixels, +5 below 3 megapixels.
DensityCorrection(pixels) ==
    IF pixels > 20000000 THEN -5 ELSE IF pixels < 3000000 THEN 5 ELSE 0

\* int(quality): truncation towards zero.
IntOf(x) == IF x.whole < 0 /\ x.frac > 0 THEN x.whole + 1 ELSE x.whole

\* No clamping at all.
clampNone(x, min, max) == x

clamp(x, min, max) == IF x < min THEN min ELSE IF x > max THEN max ELSE x

estimateQualitySinglePass(im, targetSizeKB) ==
    LET quality == Times100(sqrt(Ratio(Pixels(im), targetSizeKB)))
        corrected == [quality EXCEPT !.whole = @ + DensityCorrection(Pixels(im))]
    IN  clamp(IntOf(corrected), minQuality, maxQuality)

\* `return estimateQualitySinglePass(img, targetSizeKB), nil`
FindOptimalQuality(im, targetSizeKB) == estimateQualitySinglePass(im, targetSizeKB)

\* Image dimensions and target sizes the estimator is called with.  The
\* pixel counts lie on both sides of the 3 and 20 megapixel thresholds and,
\* for each target size, of the pixel count at which ratio = 1.
EstWidths == {1, 16, 1500, 4000}
EstHeights == {1, 16, 1000, 1517, 1518, 1999, 2000, 2001, 4266, 4267,
               5000, 5001, 5262, 5263}
EstTargets == {1, 400, 3000, 3700}
EstImages == [w : EstWidths, h : EstHeights]

InitEst ==
    /\ InitPoolIdle
    /\ NewConcurrencyLimiter(1)
    /\ req = [r \in Callers |-> NoRequest]
    /\ NewRateLimiter(1, 1)
    /\ estIn \in [a : EstImages, b : EstImages, t : EstTargets]
    /\ estOut = [a |-> 0, b |-> 0]
    /\ InitScaleIdle
    /\ InitBufIdle
    /\ InitPayIdle
    /\ InitSelIdle
    /\ InitNearestIdle

\* The estimator is called for both images with the same target size.
Estimate ==
    /\ estOut = [a |-> 0, b |-> 0]
    /\ estOut' = [a |-> FindOptimalQuality(estIn.a, estIn.t),
                  b |-> FindOptimalQuality(estIn.b, estIn.t)]
    /\ UNCHANGED estIn
    /\ UNCHANGED <<poolVars, clVars, req, rlVars, scIn, scOut, bpVars, pay, sel, nearest>>

NextEst == Estimate

SpecEst == InitEst /\ [][NextEst]_vars

\* =====================================================================
\* scaleImage (internal/converter/converter.go)
\* =====================================================================
\* A scale factor is a float64.  The factors used here are the dyadic
\* fractions num/den (den a power of two): float64 holds them exactly, and
\* their product with an image dimension is exact as well.
Scales == {[num |-> -1, den |-> 2], [num |-> 0, den |-> 1],
           [num |-> 1, den |-> 4], [num |-> 1, den |-> 2],
           [num |-> 3, den |-> 4], [num |-> 1, den |-> 1],
           [num |-> 2, den |-> 1]}

\* The chroma plane that package image gives a w x h YCbCr image at the
\* origin: (w+1)/2 columns when chroma is halved horizontally, (w+3)/4 when
\* quartered, and the same for rows.
SubsampleRatios == {"444", "422", "420", "440", "411", "410"}
ChromaWidth(ratio, w) ==
    CASE ratio \in {"422", "420"} -> (w + 1) \div 2
      [] ratio \in {"411", "410"} -> (w + 3) \div 4
      [] OTHER -> w
ChromaHeight(ratio, h) ==
    CASE ratio \in {"420", "440", "410"} -> (h + 1) \div 2
      [] OTHER -> h

\* image.NewYCbCr(image.Rect(0, 0, w, h), ratio): planes of zeroes.
NewYCbCr(w, h, ratio) ==
    [ptr |-> "new", kind |-> "YCbCr", ratio |-> ratio, w |-> w, h |-> h,
     cw |-> ChromaWidth(ratio, w), ch |-> ChromaHeight(ratio, h),
     pix |-> "zero"]

\* The images given to scaleImage: decoded YCbCr images of every subsampling
\* ratio and images of another type, empty ones included.
ScaleWidths == {0, 1, 16, 100, 150, 301, 302, 400}
ScaleHeights == {0, 1, 16, 100, 301, 400}
SrcPixels == {"P", "Q"}
YCbCrImages ==
    {[ptr |-> "img", kind |-> "YCbCr", ratio |-> r, w |-> w, h |-> h,
      cw |-> ChromaWidth(r, w), ch |-> ChromaHeight(r, h), pix |-> p] :
        r \in SubsampleRatios, w \in ScaleWidths, h \in ScaleHeights,
        p \in SrcPixels}
GenericImages ==
    {[ptr |-> "img", kind |-> "generic", ratio |-> "none", w |-> w, h |-> h,
      cw |-> 0, ch |-> 0, pix |-> p] :
        w \in ScaleWidths, h \in ScaleHeights, p \in SrcPixels}
SrcImages == YCbCrImages \cup GenericImages

\* scale >= 1.0
NoScalingNeededStrict(scale) == scale.num > scale.den
NoScalingNeeded(scale) == scale.num >= scale.den

\* int(float64(srcDim) * scale), srcDim > 0: the conversion drops the
\* fraction (towards zero).
ScaledDim(srcDim, scale) ==
    IF scale.num >= 0
    THEN (srcDim * scale.num) \div scale.den
    ELSE 0 - ((srcDim * (0 - scale.num)) \div scale.den)

\* if dst < 100 { dst = 100 }
MinScaledDim == 100
AtLeastMin(d) == IF d < MinScaledDim THEN MinScaledDim ELSE d

\* The subsampling of the image scaleImage allocates.
ScaledSubsampleRatio444 == "444"
ScaledSubsampleRatio == "420"

\* A mapping that takes the source index of the next destination sample.
SrcIndexOfNext(i, ratio) == ((i + 1) * ratio) \div 65536

\* The 16.16 fixed-point index mapping of both scalers.
FixedRatio(srcDim, dstDim) == (srcDim * 65536) \div dstDim
SrcIndex(i, ratio) == (i * ratio) \div 65536

\* `cSrcW := src.Rect.Dx() / 2`, `cSrcH := src.Rect.Dy() / 2`: the size
\* scaleYCbCrNearest takes the chroma planes of its source to have.
cSrcW(src) == src.w \div 2
cSrcH(src) == src.h \div 2

\* `cDstW := dst.Rect.Dx() / 2`, `cDstH := dst.Rect.Dy() / 2` (and
\* `cDstW := dstW / 2`, `cDstH := dstH / 2` in scaleGenericNearest): the
\* bounds of the loops that write dst.Cb and dst.Cr.
cDstW(dstW) == dstW \div 2
cDstH(dstH) == dstH \div 2

\* scaleYCbCrNearest reads src.Y[srcY*YStride + srcX] for every luma sample of
\* dst, and src.Cb/src.Cr[srcY*CStride + srcX] for every y < cDstH and
\* x < cDstW, with the chroma sizes taken as half of the two Rects.  The
\* source indexes do not decrease with x and y, so the largest one is read
\* for the last sample; an index at or past the length of the plane panics.
YCbCrReadsInRange(src, srcW, srcH, dstW, dstH) ==
    LET xRatio == FixedRatio(srcW, dstW)
        yRatio == FixedRatio(srcH, dstH)
        cxRatio == FixedRatio(cSrcW(src), cDstW(dstW))
        cyRatio == FixedRatio(cSrcH(src), cDstH(dstH))
    IN  /\ SrcIndex(dstH - 1, yRatio) * src.w + SrcIndex(dstW - 1, xRatio)
               < src.w * src.h
        /\ SrcIndex(cDstH(dstH) - 1, cyRatio) * src.cw
               + SrcIndex(cDstW(dstW) - 1, cxRatio)
               < src.cw * src.ch

\* scaleGenericNearest reads its source through At, which answers for any
\* point; both scalers write inside dst.
Resampled(dst) == [dst EXCEPT !.pix = "resampled"]

\* Validation limits of decoded images.
MaxImageWidth == 20000
MaxImageHeight == 20000
MaxImagePixels == 250000000
MinImageDimension == 16

\* ValidateImage(img) == nil
ValidateImage(img) ==
    /\ img.ptr # "nil"
    /\ ~(img.w <= 0 \/ img.h <= 0)
    /\ ~(img.w < MinImageDimension \/ img.h < MinImageDimension)
    /\ ~(img.w > MaxImageWidth \/ img.h > MaxImageHeight)
    /\ ~(img.w * img.h > MaxImagePixels)

\* scaleImage.  A panic of the scaler is recovered by the deferred function
\* and scaleImage then returns the zero value of its result, nil.
scaleImage(img, scale) ==
    IF NoScalingNeeded(scale) THEN img
    ELSE IF img.w <= 0 \/ img.h <= 0 THEN img
    ELSE LET srcW == img.w
             srcH == img.h
             dstW == AtLeastMin(ScaledDim(srcW, scale))
             dstH == AtLeastMin(ScaledDim(srcH, scale))
             yimg == NewYCbCr(dstW, dstH, ScaledSubsampleRatio)
         IN  IF img.kind = "YCbCr"
             THEN IF YCbCrReadsInRange(img, srcW, srcH, dstW, dstH)
                  THEN Resampled(yimg)
                  ELSE NilImage
             ELSE Resampled(yimg)

InitScale ==
    /\ InitPoolIdle
    /\ NewConcurrencyLimiter(1)
    /\ req = [r \in Callers |-> NoRequest]
    /\ NewRateLimiter(1, 1)
    /\ InitEstIdle
    /\ InitBufIdle
    /\ InitPayIdle
    /\ InitSelIdle
    /\ InitNearestIdle
    /\ scIn \in [img : SrcImages, scale : Scales]
    /\ scOut = NotCalled

ScaleCall ==
    /\ scOut = NotCalled
    /\ scOut' = scaleImage(scIn.img, scIn.scale)
    /\ UNCHANGED scIn
    /\ UNCHANGED <<poolVars, clVars, req, rlVars, estIn, estOut, bpVars, pay, sel, nearest>>

NextScale == ScaleCall

SpecScale == InitScale /\ [][NextScale]_vars

\* =====================================================================
\* scaleYCbCrNearest, row by row (internal/converter/converter.go 294-330)
\* =====================================================================
\* uint8 planes are slices: an index at or past len panics, as a negative
\* one does.
InSlice(i, len) == i >= 0 /\ i < len

\* The 4:2:0 sources and the destinations the scaler is run on: the least
\* and the largest dimension ValidateImage accepts, an odd one, and from
\* the least dimension scaleImage allocates upwards.
NearestSrcDims == {16, 17, 20000}
NearestDstDims == {100, 101, 999}

\* One row of the luma loop (298-307): every x of row y reads
\* src.Y[srcY*src.YStride + srcX] and writes dst.Y[y*dst.YStride + x].
LumaRowInRange(src, dst, srcW, srcH, dstW, dstH, y) ==
    LET xRatio == FixedRatio(srcW, dstW)
        yRatio == FixedRatio(srcH, dstH)
        srcY == SrcIndex(y, yRatio)
    IN  /\ InSlice(srcY, src.h)
        /\ \A x \in 0..(dstW - 1) :
              /\ InSlice(SrcIndex(x, xRatio), src.w)
              /\ InSlice(srcY * src.w + SrcIndex(x, xRatio), src.w * src.h)
              /\ InSlice(y * dst.w + x, dst.w * dst.h)

\* One row of the chroma loop (319-329): every x < cDstW of row y reads
\* src.Cb and src.Cr at srcY*src.CStride + srcX and writes dst.Cb and dst.Cr
\* at y*dst.CStride + x.
ChromaRowInRange(src, dst, y) ==
    LET cxRatio == FixedRatio(cSrcW(src), cDstW(dst.w))
        cyRatio == FixedRatio(cSrcH(src), cDstH(dst.h))
        srcY == SrcIndex(y, cyRatio)
    IN  /\ InSlice(srcY, src.ch)
        /\ \A x \in 0..(cDstW(dst.w) - 1) :
              /\ InSlice(SrcIndex(x, cxRatio), src.cw)
              /\ InSlice(srcY * src.cw + SrcIndex(x, cxRatio), src.cw * src.ch)
              /\ InSlice(y * dst.cw + x, dst.cw * dst.ch)

NearestUnchanged == UNCHANGED <<poolVars, clVars, req, rlVars, estIn, estOut,
                                scIn, scOut, bpVars, pay, sel>>

\* `for y := 0; y < dstH; y++ { ... }`, one iteration
NearestLumaRow ==
    /\ nearest.pc = "luma"
    /\ nearest.y < nearest.dst.h
    /\ nearest' =
         IF LumaRowInRange(nearest.src, nearest.dst, nearest.src.w,
                           nearest.src.h, nearest.dst.w, nearest.dst.h, nearest.y)
         THEN [nearest EXCEPT !.y = @ + 1]
         ELSE [nearest EXCEPT !.pc = "panicked"]
    /\ NearestUnchanged

\* The luma loop ends; cSrcW .. cyRatio are computed.
NearestLumaDone ==
    /\ nearest.pc = "luma"
    /\ ~(nearest.y < nearest.dst.h)
    /\ nearest' = [nearest EXCEPT !.pc = "chroma", !.y = 0]
    /\ NearestUnchanged

\* `for y := 0; y < cDstH; y++ { ... }`, one iteration
NearestChromaRow ==
    /\ nearest.pc = "chroma"
    /\ nearest.y < cDstH(nearest.dst.h)
    /\ nearest' =
         IF ChromaRowInRange(nearest.src, nearest.dst, nearest.y)
         THEN [nearest EXCEPT !.y = @ + 1]
         ELSE [nearest EXCEPT !.pc = "panicked"]
    /\ NearestUnchanged

\* The chroma loop ends and the scaler returns.
NearestReturn ==
    /\ nearest.pc = "chroma"
    /\ ~(nearest.y < cDstH(nearest.dst.h))
    /\ nearest' = [nearest EXCEPT !.pc = "done"]
    /\ NearestUnchanged

InitNearest ==
    /\ InitPoolIdle
    /\ NewConcurrencyLimiter(1)
    /\ req = [r \in Callers |-> NoRequest]
    /\ NewRateLimiter(1, 1)
    /\ InitEstIdle
    /\ InitScaleIdle
    /\ InitBufIdle
    /\ InitPayIdle
    /\ InitSelIdle
    /\ \E sw \in NearestSrcDims, sh \in NearestSrcDims,
          dw \in NearestDstDims, dh \in NearestDstDims :
          nearest = [src |-> [NewYCbCr(sw, sh, "420") EXCEPT !.ptr = "img", !.pix = "P"],
                     dst |-> NewYCbCr(dw, dh, ScaledSubsampleRatio),
                     pc |-> "luma", y |-> 0]

NextNearest ==
    \/ NearestLumaRow
    \/ NearestLumaDone
    \/ NearestChromaRow
    \/ NearestReturn

SpecNearest == InitNearest /\ [][NextNearest]_vars

\* =====================================================================
\* BufferPool (package converter)
\* =====================================================================
\* The capacity the New function of each tier allocates.
TierCap(t) ==
    CASE t = "small" -> 64 * 1024
      [] t = "medium" -> 512 * 1024
      [] t = "large" -> 5 * 1024 * 1024
      [] t = "xlarge" -> 10 * 1024 * 1024

\* The switch of GetBuffer.
TierOf(size) ==
    IF size <= 64 * 1024 THEN "small"
    ELSE IF size <= 512 * 1024 THEN "medium"
    ELSE IF size <= 5 * 1024 * 1024 THEN "large"
    ELSE "xlarge"

\* The size hints tried: around every tier boundary, and past the last one.
BufSizes == {0, 65536, 65537, 524289, 5242881, 15728640}

\* sync.Pool.Get hands out a buffer the pool holds, or, also while it holds
\* some (its items are cached per P and dropped by the collector), a new one
\* made by New.  The caller then owns the buffer.
GetPooled(t, b) ==
    /\ b \in globalBufferPool[t]
    /\ globalBufferPool' = [globalBufferPool EXCEPT ![t] = @ \ {b}]
    /\ heap' = [heap EXCEPT ![b].st = "held"]
GetNew(t, b) ==
    /\ heap[b].st = "unborn"
    /\ \A a \in Buffers : a < b => heap[a].st # "unborn"
    /\ heap' = [heap EXCEPT ![b] = [st |-> "held", len |-> 0,
                                    cap |-> TierCap(t), appends |-> 0]]
    /\ UNCHANGED globalBufferPool

GetBuffer(size) ==
    LET t == TierOf(size)
    IN  /\ \E b \in Buffers : GetPooled(t, b) \/ GetNew(t, b)
        /\ \E b \in Buffers :
              /\ heap[b].st # "held" /\ heap'[b].st = "held"
              /\ lastGet' = [size |-> size, tier |-> t,
                             len |-> heap'[b].len, cap |-> heap'[b].cap]
        /\ UNCHANGED <<poolVars, clVars, req, rlVars, estIn, estOut, scIn, scOut, pay, sel, nearest>>

\* *buf = append(*buf, data...) by the owner of a buffer.  append writes in
\* place while the data fit; otherwise it moves the slice to a new array,
\* of which Go promises only that it holds the data: its capacity is any
\* value from the needed length up; the needed length itself and the next
\* tier capacity stand for them.
MaxAppends == 2
AppendSizes == {4, 65536}
GrownCaps(needed) == {needed, TierCap(TierOf(needed))}
AppendTo(b, n) ==
    /\ heap[b].st = "held"
    /\ heap[b].appends < MaxAppends
    /\ LET needed == heap[b].len + n
       IN  IF needed <= heap[b].cap
           THEN heap' = [heap EXCEPT ![b].len = needed, ![b].appends = @ + 1]
           ELSE \E c \in GrownCaps(needed) :
                   heap' = [heap EXCEPT ![b].len = needed, ![b].cap = c,
                                        ![b].appends = @ + 1]
    /\ UNCHANGED <<globalBufferPool, lastGet>>
    /\ UNCHANGED <<poolVars, clVars, req, rlVars, estIn, estOut, scIn, scOut, pay, sel, nearest>>

\* *b = (*b)[:0]
ResetLen(len) == 0
\* case capacity == <the tier's capacity>
PutTierAtLeast(capacity, t) == capacity >= TierCap(t)
PutTier(capacity, t) == capacity = TierCap(t)

\* PutBuffer by the owner of b, who gives the buffer up with the call (as
\* PooledBuffer.Release does by clearing its pointer).  The switch takes the
\* first tier that matches, in the order small, medium, large, xlarge.
TierOrder == <<"small", "medium", "large", "xlarge">>
PutBuffer(b) ==
    /\ heap[b].st = "held"
    /\ LET capacity == heap[b].cap
           hits == {i \in 1..4 : PutTier(capacity, TierOrder[i])}
       IN  IF hits # {}
           THEN LET first == CHOOSE i \in hits : \A j \in hits : i <= j
                IN  /\ globalBufferPool' =
                           [globalBufferPool EXCEPT ![TierOrder[first]] = @ \cup {b}]
                    /\ heap' = [heap EXCEPT ![b].st = "pooled",
                                            ![b].len = ResetLen(@)]
           ELSE /\ heap' = [heap EXCEPT ![b].st = "garbage",
                                        ![b].len = ResetLen(@)]
                /\ UNCHANGED globalBufferPool
    /\ UNCHANGED lastGet
    /\ UNCHANGED <<poolVars, clVars, req, rlVars, estIn, estOut, scIn, scOut, pay, sel, nearest>>

InitBP ==
    /\ InitPoolIdle
    /\ NewConcurrencyLimiter(1)
    /\ req = [r \in Callers |-> NoRequest]
    /\ NewRateLimiter(1, 1)
    /\ InitFnIdle

NextBP ==
    \/ \E size \in BufSizes : GetBuffer(size)
    \/ \E b \in Buffers, n \in AppendSizes : AppendTo(b, n)
    \/ \E b \in Buffers : PutBuffer(b)

SpecBP == InitBP /\ [][NextBP]_vars

\* =====================================================================
\* The way of a payload to the decoder (handler.go, pool.go, converter.go)
\* =====================================================================
MaxFileSize == 20 * 1024 * 1024
MinFileSize == 12
PayLens == {0, 5, 12, 20971520, 20971521}
PayEntries == {"Handler.Convert", "SubmitToGlobalPool", "Submit", "ConvertBytes"}
Payloads ==
    {q \in {[NoPayload EXCEPT !.entry = e, !.len = n, !.magic = m, !.pool = u] :
                e \in PayEntries, n \in PayLens, m \in BOOLEAN, u \in BOOLEAN} :
        q.magic => q.len >= MinFileSize}

\* ValidateFile(data) == nil
ValidateFile(n) == ~(n > MaxFileSize) /\ ~(n < MinFileSize)
\* isValidHEIF(data)
isValidHEIF(n, m) == ~(n < 12) /\ m

PayUnchanged == UNCHANGED <<poolVars, clVars, req, rlVars, estIn, estOut,
                            scIn, scOut, bpVars, sel, nearest>>

\* The payload is given to its entry function.
PayCall ==
    /\ pay.pc = "new"
    /\ pay' = [pay EXCEPT !.pc = pay.entry]
    /\ PayUnchanged

\* Handler.Convert: converter.ValidateFile(fileData), then
\* isValidHEIF(fileData); each answers the request itself when it fails.
HandlerValidateFile ==
    /\ pay.pc = "Handler.Convert"
    /\ ~pay.sizeOk
    /\ pay' = IF ValidateFile(pay.len)
              THEN [pay EXCEPT !.sizeOk = TRUE]
              ELSE [pay EXCEPT !.pc = "rejected"]
    /\ PayUnchanged
HandlerMagic ==
    /\ pay.pc = "Handler.Convert"
    /\ pay.sizeOk /\ ~pay.magicOk
    /\ pay' = IF isValidHEIF(pay.len, pay.magic)
              THEN [pay EXCEPT !.magicOk = TRUE]
              ELSE [pay EXCEPT !.pc = "rejected"]
    /\ PayUnchanged
\* Handler.Convert and its convert* helpers: SubmitToGlobalPool when
\* h.useWorkerPool, a Convert* function of the Converter otherwise.
HandlerDispatch ==
    /\ pay.pc = "Handler.Convert"
    /\ pay.sizeOk /\ pay.magicOk
    /\ pay' = [pay EXCEPT !.pc = IF pay.pool THEN "SubmitToGlobalPool"
                                 ELSE "ConvertBytes"]
    /\ PayUnchanged

\* SubmitToGlobalPool: the pool's Submit, or a Convert* function directly
\* when globalWorkerPool is nil.
PayGlobalPool ==
    /\ pay.pc = "SubmitToGlobalPool"
    /\ pay' = [pay EXCEPT !.pc = IF pay.pool THEN "Submit" ELSE "ConvertBytes"]
    /\ PayUnchanged

\* Submit: the Job holding data is sent on p.jobs, or the queue is full.
PayEnqueue ==
    /\ pay.pc = "Submit"
    /\ pay' = [pay EXCEPT !.pc = "queue", !.queued = TRUE]
    /\ PayUnchanged
PayBusy ==
    /\ pay.pc = "Submit"
    /\ pay' = [pay EXCEPT !.pc = "rejected"]
    /\ PayUnchanged
\* worker: receives the Job and calls a Convert* function with job.Data.
PayWorker ==
    /\ pay.pc = "queue"
    /\ pay' = [pay EXCEPT !.pc = "ConvertBytes"]
    /\ PayUnchanged

\* ConvertBytes and its three siblings: ErrInvalidHEIF for empty data, else
\* goheif.Decode(bytes.NewReader(data)).
PayDecode ==
    /\ pay.pc = "ConvertBytes"
    /\ pay' = IF pay.len = 0
              THEN [pay EXCEPT !.pc = "rejected"]
              ELSE [pay EXCEPT !.pc = "decoded", !.decoded = TRUE]
    /\ PayUnchanged

InitPay ==
    /\ InitPoolIdle
    /\ NewConcurrencyLimiter(1)
    /\ req = [r \in Callers |-> NoRequest]
    /\ NewRateLimiter(1, 1)
    /\ InitEstIdle
    /\ InitScaleIdle
    /\ InitBufIdle
    /\ pay \in Payloads
    /\ InitSelIdle
    /\ InitNearestIdle

NextPay ==
    \/ PayCall
    \/ HandlerValidateFile
    \/ HandlerMagic
    \/ HandlerDispatch
    \/ PayGlobalPool
    \/ PayEnqueue
    \/ PayBusy
    \/ PayWorker
    \/ PayDecode

SpecPay == InitPay /\ [][NextPay]_vars

\* =====================================================================
\* Choice of the conversion variant (internal/converter/pool.go 63-71 and
\* 171-178) and the quality each variant encodes with (converter.go)
\* =====================================================================
\* Job.Quality / the quality argument of SubmitToGlobalPool.
Qualities == {-1, 0, 1, 85, 100, 101}

\* job.Scale > 0 && job.Scale < 1.0
ScaleSet(scale) == scale.num > 0 /\ scale.num < scale.den

\* A fallback that never looks at the scale.
FallbackVariantUnscaled(scale, quality) ==
    IF quality > 0 THEN "ConvertBytesWithQuality" ELSE "ConvertBytes"

\* The if-chain of WorkerPool.worker.
WorkerVariant(scale, quality) ==
    IF quality > 0 /\ ScaleSet(scale) THEN "ConvertBytesFastWithQuality"
    ELSE IF ScaleSet(scale) THEN "ConvertBytesFast"
    ELSE IF quality > 0 THEN "ConvertBytesWithQuality"
    ELSE "ConvertBytes"

\* The if-chain of SubmitToGlobalPool under `globalWorkerPool == nil`.
FallbackVariant(scale, quality) ==
    IF quality > 0 /\ ScaleSet(scale) THEN "ConvertBytesFastWithQuality"
    ELSE IF ScaleSet(scale) THEN "ConvertBytesFast"
    ELSE IF quality > 0 THEN "ConvertBytesWithQuality"
    ELSE "ConvertBytes"

\* `const fastModeQuality = 85`, and the `q = 85` of the quality checks
fastModeQuality == 85

\* `if q < 1 || q > 100 { q = 85 }`
FixedQuality(q) == IF q < 1 \/ q > 100 THEN fastModeQuality ELSE q

\* The quality a variant hands to encodeImage: src "estimator" is the
\* result of quality.FindOptimalQuality(img, c.targetSizeKB), "const" the
\* constant of ConvertBytesFast, "job" the job's own quality as checked.
EncodeQuality(variant, q) ==
    CASE variant = "ConvertBytes" -> [src |-> "estimator", q |-> 0]
      [] variant = "ConvertBytesWithQuality" -> [src |-> "job", q |-> FixedQuality(q)]
      [] variant = "ConvertBytesFast" -> [src |-> "const", q |-> fastModeQuality]
      [] variant = "ConvertBytesFastWithQuality" -> [src |-> "job", q |-> FixedQuality(q)]

SelUnchanged == UNCHANGED <<poolVars, clVars, req, rlVars, estIn, estOut,
                            scIn, scOut, bpVars, pay, nearest>>

\* A worker has received the job and picks the variant.
WorkerSelect ==
    /\ sel.worker = "none"
    /\ sel' = [sel EXCEPT !.worker = WorkerVariant(sel.scale, sel.quality)]
    /\ SelUnchanged

\* The variant picked by the worker decodes and validates the image and
\* reaches its encodeImage call.
WorkerEncode ==
    /\ sel.worker # "none"
    /\ sel.enc = NotEncoded
    /\ sel' = [sel EXCEPT !.enc = EncodeQuality(sel.worker, sel.quality)]
    /\ SelUnchanged

\* SubmitToGlobalPool is called with the same arguments before
\* InitGlobalWorkerPool has run.
FallbackSelect ==
    /\ sel.fallback = "none"
    /\ sel' = [sel EXCEPT !.fallback = FallbackVariant(sel.scale, sel.quality)]
    /\ SelUnchanged

InitSel ==
    /\ InitPoolIdle
    /\ NewConcurrencyLimiter(1)
    /\ req = [r \in Callers |-> NoRequest]
    /\ NewRateLimiter(1, 1)
    /\ InitEstIdle
    /\ InitScaleIdle
    /\ InitBufIdle
    /\ InitPayIdle
    /\ InitNearestIdle
    /\ \E s \in Scales, q \in Qualities :
          sel = [NoSelection EXCEPT !.scale = s, !.quality = q]

NextSel ==
    \/ WorkerSelect
    \/ WorkerEncode
    \/ FallbackSelect

SpecSel == InitSel /\ [][NextSel]_vars

\* =====================================================================
\* Properties of the worker pool
\* =====================================================================
Returned(c) == client[c].pc = "done"
InSubmit(c) == client[c].pc \in {"start", "spawn", "select", "wait"}
\* The step in which the Submit of c returns to its caller.
SubmitReturn(c) ==
    /\ client[c].pc \in {"select", "wait"}
    /\ client'[c].pc \in {"done", "backoff"}

\* C1: with N workers the job queue never holds more than 2*N jobs, and a
\* Submit whose context is not done and that finds the queue full returns
\* ErrPoolBusy in that very step, leaving the queue as it was and its own
\* job not enqueued.
C1_Backpressure ==
    /\ [](Len(jobs) <= 2 * workers)
    /\ [][\A c \in Clients :
            (/\ client[c].pc = "select"
             /\ ~client[c].ctx
             /\ Len(jobs) = 2 * workers
             /\ client'[c].pc # "select")
            => (/\ SubmitReturn(c)
                /\ client'[c].out = ErrPoolBusy
                /\ jobs' = jobs
                /\ ~job'[c].enq)]_vars

\* A Submit with a live context came back busy from a full queue of a pool
\* that has workers.
C1_Witness ==
    \E c \in Clients :
        /\ Returned(c)
        /\ client[c].ret = ErrPoolBusy
        /\ ~client[c].ctx
        /\ workers >= 1
        /\ Len(jobs) = 2 * workers

\* C2: under fair scheduling of callers and workers every Submit in
\* progress eventually returns, whether or not its context is ever
\* cancelled, and a Submit that runs its select with a live context while
\* the queue is full returns ErrPoolBusy.
C2_SubmitAlwaysReturns ==
    /\ \A c \in Clients : InSubmit(c) ~> Returned(c)
    /\ [][\A c \in Clients :
            (/\ client[c].pc = "select"
             /\ ~client[c].ctx
             /\ Len(jobs) >= 2 * workers
             /\ SubmitReturn(c))
            => client'[c].ret = ErrPoolBusy]_vars

\* One Submit returned a Result with its context never cancelled while
\* another was turned away busy.
C2_Witness ==
    \E c, d \in Clients :
        /\ Returned(c) /\ client[c].ret = [kind |-> "ok", job |-> c]
        /\ ~client[c].ctx
        /\ Returned(d) /\ client[d].ret = ErrPoolBusy
        /\ workers >= 1

\* C3: a Submit whose context was already done when it was called returns
\* the context's error: never a Result, never ErrPoolBusy.
C3_CancelledAtCallReturnsCtxErr ==
    \A c \in Clients :
        (Returned(c) /\ client[c].ctx0) => client[c].ret = CtxErr

\* C4 as claimed: after the enqueue, whichever of the two events happened
\* first decides what Submit returns: the context's error when the context
\* was done before a Result was in the result channel, the Result when it
\* was there while the context was not done.  Stated for calls whose
\* context was live when Submit was called.
C4_FirstEventDecides ==
    [][\A c \in Clients :
        (client[c].pc = "wait" /\ SubmitReturn(c) /\ ~client[c].ctx0)
        => (/\ client[c].first = "ctx" => client'[c].out = CtxErr
            /\ client[c].first = "res"
                  => client'[c].out = [kind |-> job[c].rchan, job |-> c])]_vars

\* C4 amended: what Submit returns is decided by what its inner select
\* finds when it runs.  It returns the context's error only when the
\* context is done and the job's own Result (data and error) only when the
\* Result is in the result channel; with the context done and no Result
\* there it returns the context's error in that step, whatever has become of
\* the job; with a Result there and the context not done it returns the Result.
C4_WaitResolves ==
    [][\A c \in Clients :
        (client[c].pc = "wait" /\ SubmitReturn(c))
        => (/\ \/ client'[c].out = CtxErr
               \/ client'[c].out = [kind |-> job[c].rchan, job |-> c]
            /\ client'[c].out = CtxErr => client[c].ctx
            /\ client'[c].out # CtxErr => job[c].rchan \in ConvResults
            /\ (client[c].ctx /\ job[c].rchan = "empty")
                  => (client'[c].out = CtxErr /\ job' = job /\ jobs' = jobs
                      /\ wst' = wst)
            /\ (~client[c].ctx /\ job[c].rchan \in ConvResults)
                  => client'[c].out = [kind |-> job[c].rchan, job |-> c])]_vars

\* A Submit whose context was cancelled after the call returned the
\* context's error while its job had not been converted yet.
C4_Witness ==
    \E c \in Clients :
        /\ Returned(c) /\ client[c].ret = CtxErr /\ ~client[c].ctx0
        /\ job[c].enq /\ job[c].conv = 0

\* C5: when Stop has returned on a pool that was started, the queue is
\* empty, every job ever enqueued has been taken and converted once and its
\* Result sent or dropped, and all N workers have exited.
C5_StopDrains ==
    (stopPc = "done" /\ stopStarted)
    => (/\ jobs = << >>
        /\ spawned = workers
        /\ \A w \in 1..workers : wst[w] = "exited"
        /\ \A c \in Clients :
              job[c].enq => (/\ job[c].taken = 1
                             /\ job[c].conv = 1
                             /\ job[c].sent + job[c].dropped = 1))

\* Stop returned on a started pool whose queue was full when it was called.
C5_Witness ==
    /\ stopPc = "done" /\ stopStarted
    /\ workers >= 1
    /\ stopQueued = 2 * workers

\* C6: whatever Start and Submit calls are made, never more than N workers
\* are spawned, and exactly N once a Start has completed.
C6_WorkersSpawnedOnce ==
    /\ spawned <= workers
    /\ once = "done" => spawned = workers
    /\ \A c \in Clients : client[c].pc \in {"select", "wait", "backoff"}
          => (once = "done" /\ spawned = workers)

\* Two Submits have returned from their p.Start(), Start is being called
\* once more directly, and the pool has its N >= 1 workers.
C6_Witness ==
    /\ workers >= 1 /\ spawned = workers /\ once = "done"
    /\ client[Starter].pc = "start"
    /\ \E c, d \in Clients :
          c # d /\ client[c].pc = "wait" /\ client[d].pc = "wait"

\* Where a job is: in the queue, held by a worker, or neither.
InQueue(j) == \E k \in 1..Len(jobs) : jobs[k] = j
Holders(j) == {w \in Workers : wst[w] = "busy" /\ wjob[w] = j}
Copies(j) == Cardinality({k \in 1..Len(jobs) : jobs[k] = j}) + Cardinality(Holders(j))

C8_OnlyBusyIsRetried ==
    [][\A c \in Clients :
        /\ client'[c].att > client[c].att
              => (client[c].att = 0 \/ client[c].out = ErrPoolBusy)
        /\ (SubmitReturn(c) /\ client'[c].out # ErrPoolBusy)
              => (/\ client'[c].pc = "done"
                  /\ client'[c].ret = client'[c].out
                  /\ client'[c].att = client[c].att)
        /\ (client[c].pc = "done") => client'[c] = client[c]]_vars

\* A SubmitWithRetry was turned away busy, tried again and returned the
\* conversion error of its second Submit.
C8_Witness ==
    \E c \in Clients :
        /\ Returned(c) /\ client[c].op = "retry"
        /\ client[c].att = 2
        /\ client[c].ret = [kind |-> "fail", job |-> c]

\* C9: when all maxRetries (>= 1) Submit attempts of a SubmitWithRetry
\* returned ErrPoolBusy, it has made exactly maxRetries attempts and
\* returns ErrPoolBusy.
C9_ExhaustedReturnsBusy ==
    \A c \in Clients :
        (/\ Returned(c) /\ client[c].op = "retry" /\ client[c].max >= 1
         /\ client[c].att = client[c].max /\ client[c].out = ErrPoolBusy)
        => client[c].ret = ErrPoolBusy

\* =====================================================================
\* Properties of the ConcurrencyLimiter
\* =====================================================================
\* The callers holding a slot: from the send of Acquire to the receive of
\* Release.
SlotHolders == {c \in Callers : caller[c].pc \in {"acq", "hold"}}

\* C10: with capacity max >= 1 at most max callers hold a slot at any time
\* (the slots held are the tokens in the semaphore); an Acquire is never
\* blocked: with fewer than max slots held it takes one and returns true,
\* with max held it returns false and takes none; and a holder's Release
\* leaves fewer than max slots held, so that an Acquire then succeeds.
C10_AtMostMaxHolders ==
    /\ [](/\ Cardinality(SlotHolders) = sem
          /\ sem <= clMax
          /\ \A c \in Callers :
                /\ caller[c].pc = "hold" => caller[c].got = "true"
                /\ caller[c].pc = "idle" =>
                      (ENABLED AcquireSend(c) \/ ENABLED AcquireFull(c))
                /\ caller[c].pc = "acq" => ENABLED AcquireCount(c))
    /\ [][\A c \in Callers :
            /\ (caller[c].pc = "idle" /\ caller'[c] # caller[c])
                  => \/ /\ Cardinality(SlotHolders) < clMax
                        /\ caller'[c].pc = "acq"
                        /\ sem' = sem + 1
                     \/ /\ Cardinality(SlotHolders) = clMax
                        /\ caller'[c] = [pc |-> "idle", got |-> "false"]
                        /\ sem' = sem
            /\ (caller[c].pc = "hold" /\ caller'[c].pc = "rel")
                  => sem' < clMax]_vars

\* With max = 1: one caller was refused while the slot was held, the holder
\* released it, and another caller then acquired it.
C10_Witness ==
    /\ clMax = 1
    /\ \E c, d, e \in Callers :
          /\ caller[c] = [pc |-> "hold", got |-> "true"]
          /\ caller[d] = [pc |-> "idle", got |-> "released"]
          /\ caller[e] = [pc |-> "idle", got |-> "false"]

\* =====================================================================
\* Properties of the ConcurrencyLimit middleware
\* =====================================================================
\* A request is in flight from its arrival until its handler func has exited.
InFlight(r) == req[r].stage \notin {"new", "done"}

\* C11: a request admitted by Acquire makes exactly one Release call, made
\* after its handler has exited by a return or by a panic, and the slot is
\* back when the request is done; a rejected request makes none and never
\* held a slot; with no request in flight no slot is held; and a request is
\* rejected only while another request is in flight, so sequential requests
\* are never rejected.
C11_ReleaseOncePerAdmission ==
    /\ [](/\ \A r \in Callers :
                /\ req[r].rel <= req[r].acq
                /\ req[r].acq <= 1
                /\ req[r].rel = 1 => req[r].how \in HandlerExits
                /\ (req[r].stage = "done" /\ req[r].acq = 1)
                      => (/\ req[r].rel = 1
                          /\ caller[r] = [pc |-> "idle", got |-> "released"])
                /\ req[r].status = 503
                      => (/\ req[r].acq = 0 /\ req[r].rel = 0
                          /\ caller[r] = [pc |-> "idle", got |-> "false"])
          /\ (\A r \in Callers : ~InFlight(r)) => (sem = 0 /\ active = 0))
    /\ [][\A r \in Callers :
            (caller[r].got = "none" /\ caller'[r].got = "false")
            => \E d \in Callers : d # r /\ InFlight(d)]_vars

\* With max = 1: one request was rejected while another held the slot, the
\* holder's handler panicked and its slot was released, and a request that
\* came afterwards was admitted and served.
C11_Witness ==
    /\ clMax = 1
    /\ sem = 0
    /\ \E r, d, e \in Callers :
          /\ req[r] = [stage |-> "done", how |-> "panic", status |-> 0,
                       acq |-> 1, rel |-> 1]
          /\ req[d].stage = "done" /\ req[d].status = 503
          /\ req[e] = [stage |-> "done", how |-> "return", status |-> 200,
                       acq |-> 1, rel |-> 1]

\* =====================================================================
\* Properties of the RateLimiter
\* =====================================================================
\* C12: with rate >= 1 and burst B >= 1, of the Allow calls made for a key
\* at the instant its bucket is created the first B return true and the
\* ones after them return false; and an Allow made for a key whose previous
\* call was rejected, at least 1/rate seconds after that rejection,
\* returns true.
C12_BurstThenRefill ==
    rate >= 1 =>
        \A k \in AllKeys :
            /\ streak[k] \in 1..burst => lastCall[k].ok = "true"
            /\ streak[k] = burst + 1 => lastCall[k].ok = "false"
            /\ (/\ lastCall[k].prev = "false"
                /\ (lastCall[k].at - lastCall[k].prevAt) * rate >= TicksPerSec)
               => lastCall[k].ok = "true"

\* A key was rejected and its next call, made at least 1/rate seconds later
\* and before its bucket could be evicted, was allowed by the refill.
C12_Witness ==
    /\ rate >= 1
    /\ \E k \in AllKeys :
          /\ lastCall[k].ok = "true" /\ lastCall[k].prev = "false"
          /\ (lastCall[k].at - lastCall[k].prevAt) * rate >= TicksPerSec
          /\ lastCall[k].at - lastCall[k].prevAt <= TicksPerSec
          /\ limits[k].exists /\ limits[k].lastRef = lastCall[k].at

\* C13: an Allow call for key k leaves the bucket of every other key as it
\* was (its existence, token count and last-refill time); the last-refill
\* time of a bucket is the time of the last call made for its own key; and
\* what Allow returns is determined by the bucket of k alone.
C13_BucketsIndependent ==
    /\ [](\A k \in AllKeys :
            limits[k].exists => limits[k].lastRef = lastCall[k].at)
    /\ [][\A k \in RLKeys :
            AllowCall(k)
            => (/\ \A j \in AllKeys \ {k} :
                      limits'[j] = limits[j] /\ lastCall'[j] = lastCall[j]
                /\ rlRet'.ok = BoolStr(AllowDecision(limits[k], now, rate, burst)))]_vars

\* At one instant a key has used up its burst and is rejected while another
\* key, whose bucket is fresh, is allowed.
C13_Witness ==
    \E k, j \in RLKeys :
        /\ k # j
        /\ streak[k] = burst + 1 /\ lastCall[k].ok = "false"
        /\ streak[j] = 1 /\ lastCall[j].ok = "true"
        /\ limits[j].tokens = FreshTokens(burst)
        /\ rlRet.key = j

\* C14: the requests that come from one client IP address (and carry no
\* forwarding header) are all charged to one and the same bucket, whatever
\* their source ports.
C14_SameIPSameBucket ==
    \A i \in IPs : Cardinality(charged[i]) <= 1

C16_QualityInRange ==
    estOut.a # 0 =>
        (/\ estIn.a.w > 0 /\ estIn.a.h > 0 /\ estIn.t > 0
         /\ estOut.a \in 10..100
         /\ estOut.b \in 10..100)

\* The estimator has returned both ends of the range: 10 for a large image
\* with a small target, 100 for a small image with a large target.
C16_Witness ==
    /\ estOut.a = 10 /\ Pixels(estIn.a) > 20000000
    /\ estOut.b = 100 /\ Pixels(estIn.b) < 3000000

\* C17: with the target size fixed, of two images the one with more pixels
\* never gets the higher quality.
C17_MonotoneInPixels ==
    (estOut.a # 0 /\ Pixels(estIn.a) <= Pixels(estIn.b)) => estOut.a >= estOut.b

\* Two images of more than 20 megapixels on the two sides of ratio = 1,
\* where the square-root helper switches from x to the Newton iteration,
\* got qualities strictly inside the range, the larger image the lower one.
C17_Witness ==
    /\ estOut.a # 0
    /\ Pixels(estIn.a) > 20000000 /\ Pixels(estIn.a) < Pixels(estIn.b)
    /\ Ratio(Pixels(estIn.a), estIn.t).whole >= 1
    /\ Ratio(Pixels(estIn.b), estIn.t).whole = 0
    /\ estOut.a < 100 /\ estOut.b > 10 /\ estOut.b < estOut.a

\* =====================================================================
\* Properties of scaleImage
\* =====================================================================
ScaleReturned == scOut # NotCalled
\* 0 < scale < 1
ProperFraction(scale) == scale.num > 0 /\ scale.num < scale.den
\* round(srcDim * scale) for a positive product: halves go up.
Rounded(srcDim, scale) == (2 * srcDim * scale.num + scale.den) \div (2 * scale.den)
Max(a, b) == IF a >= b THEN a ELSE b

\* C18: for every factor in (0, 1) and every source image with positive
\* dimensions, the image scaleImage returns is max(100, round(srcWidth *
\* factor)) wide and max(100, round(srcHeight * factor)) high.
C18_RoundedDimensions ==
    (/\ ScaleReturned
     /\ ProperFraction(scIn.scale)
     /\ scIn.img.w > 0 /\ scIn.img.h > 0)
    => /\ scOut.w = Max(100, Rounded(scIn.img.w, scIn.scale))
       /\ scOut.h = Max(100, Rounded(scIn.img.h, scIn.scale))

\* C19: for every factor in (0, 1) the image scaleImage returns is 4:2:0,
\* each of its Cb and Cr planes being exactly half as wide and half as high
\* as its luma plane, whether the source is YCbCr or of another type.
C19_ChromaExactlyHalf ==
    (ScaleReturned /\ ProperFraction(scIn.scale))
    => /\ scOut.kind = "YCbCr" /\ scOut.ratio = "420"
       /\ 2 * scOut.cw = scOut.w
       /\ 2 * scOut.ch = scOut.h

\* C20: with a factor of 1 or more scaleImage returns the very image it was
\* given: the same object, hence no new image, the same dimensions and the
\* same pixel data.
C20_NoScalingReturnsInput ==
    (ScaleReturned /\ scIn.scale.num >= scIn.scale.den)
    => scOut = scIn.img

\* C20's case: a full-colour 4:4:4 image, which a scaled copy could not
\* equal, comes back as it went in, for a factor of exactly 1 (another state
\* does the same for 2).
C20_Witness ==
    /\ ScaleReturned
    /\ scIn.scale = [num |-> 1, den |-> 1]
    /\ scIn.img.kind = "YCbCr" /\ scIn.img.ratio = "444"
    /\ scIn.img.w = 400 /\ scIn.img.h = 301 /\ scIn.img.pix = "Q"
    /\ scOut.ptr = "img" /\ scOut.w = 400 /\ scOut.h = 301
    /\ scOut.ratio = "444" /\ scOut.pix = "Q"

\* The resampling of img by scale raises a fault: scaleImage gets as far as
\* the YCbCr scaler, which reads past a plane of its source.
ResamplingFaults(img, scale) ==
    /\ ~NoScalingNeeded(scale)
    /\ img.w > 0 /\ img.h > 0
    /\ img.kind = "YCbCr"
    /\ ~YCbCrReadsInRange(img, img.w, img.h,
                          AtLeastMin(ScaledDim(img.w, scale)),
                          AtLeastMin(ScaledDim(img.h, scale)))

\* C21: scaleImage never returns a nil image; for a source whose width or
\* height is zero or negative, and whenever a fault raised during resampling
\* is recovered, it returns the original unscaled image.
C21_FaultReturnsOriginal ==
    ScaleReturned =>
        /\ scOut.ptr # "nil"
        /\ (scIn.img.w <= 0 \/ scIn.img.h <= 0) => scOut = scIn.img
        /\ ResamplingFaults(scIn.img, scIn.scale) => scOut = scIn.img

\* =====================================================================
\* Properties of the BufferPool
\* =====================================================================
\* C22: for every size hint GetBuffer returns a zero-length buffer of the
\* smallest tier whose capacity is at least the hint, so the capacity of the
\* returned buffer is at least the requested size.
C22_SmallestTierAtLeastHint ==
    lastGet.tier # "none" =>
        /\ lastGet.len = 0
        /\ lastGet.cap = TierCap(lastGet.tier)
        /\ lastGet.cap >= lastGet.size
        /\ \A t \in Tiers : TierCap(t) >= lastGet.size => lastGet.cap <= TierCap(t)

Pooled == UNION {globalBufferPool[t] : t \in Tiers}
OffTier(capacity) == \A t \in Tiers : capacity # TierCap(t)

\* C23: after any sequence of GetBuffer, append and PutBuffer calls every
\* buffer in a tier's free list has length 0 and exactly that tier's
\* capacity, and a PutBuffer of a buffer whose capacity is no tier's capacity
\* leaves all free lists unchanged.
C23_FreeListsExact ==
    /\ [](\A t \in Tiers : \A b \in globalBufferPool[t] :
              heap[b].len = 0 /\ heap[b].cap = TierCap(t))
    /\ [][\A b \in Buffers :
              (PutBuffer(b) /\ OffTier(heap[b].cap))
                  => UNCHANGED globalBufferPool]_vars

\* C23's case: a buffer that append has moved to an array of 65540 bytes has
\* been put and is in no free list, while another one, written to and put,
\* sits in the small tier.
C23_Witness ==
    \E a, b \in Buffers :
        /\ heap[a].st = "garbage" /\ heap[a].cap = 65540 /\ a \notin Pooled
        /\ heap[b].st = "pooled" /\ heap[b].appends > 0
        /\ b \in globalBufferPool["small"]

\* =====================================================================
\* Properties of the worker pool under faults, cancellation and Stop
\* =====================================================================
\* C24: a panic raised by the encoder while a worker processes a job does
\* not terminate the worker: it is recovered, the job falls back to the
\* alternate encoder, and the worker goes on to serve later jobs.
C24_EncoderFaultIsolated ==
    \A w \in Workers : wst[w] # "panicked"

\* C25: no payload reaches the job queue or the decoder without having
\* passed the file-size check (at most 20MB, at least 12 bytes) and the
\* magic-byte check first, on every path: Handler.Convert, Submit,
\* SubmitToGlobalPool and the direct Convert* functions.
C25_ValidatedBeforeDecode ==
    (pay.queued \/ pay.decoded) => (pay.sizeOk /\ pay.magicOk)

\* C26: a worker never blocks while delivering a Result: whether the
\* submitter still waits or has returned on cancellation, a worker holding a
\* job gets back to the receive of its range loop, its Result sent or
\* dropped.
C26_WorkerNeverBlocks ==
    \A w \in Workers : (wst[w] = "busy") ~> (wst[w] = "recv")

\* C26's case: the worker has sent the Result of a job whose submitter had
\* already returned with the context's error, and has then taken the job
\* of another submitter.
C26_Witness ==
    \E c, d \in Clients :
        /\ c # d
        /\ client[c].pc = "done" /\ client[c].ret = CtxErr
        /\ job[c].conv = 1 /\ job[c].sent + job[c].dropped = 1
        /\ job[c].rchan # "empty"
        /\ \E w \in Workers : wst[w] = "busy" /\ wjob[w] = d

\* C27: a Submit called with an already-cancelled context makes no enqueue
\* attempt: its job is never enqueued and never processed by a worker.
C27_CancelledNeverEnqueued ==
    \A c \in Clients :
        (client[c].op = "submit" /\ client[c].ctx0)
            => (~job[c].enq /\ job[c].taken = 0 /\ job[c].conv = 0)

\* C28: a Submit that runs after Stop, or concurrently with it, never sends
\* on the closed job channel: it fails with an error instead of panicking,
\* and a second Stop does not panic either.
C28_StoppedIsTerminal ==
    /\ \A c \in Clients : client[c].pc # "panicked"
    /\ stopPc # "panicked"

\* C29: SubmitWithRetry never returns a nil error unless one of its Submit
\* attempts succeeded and produced the returned data; in particular, for
\* maxRetries <= 0 it does not return (nil data, nil error).
C29_NilErrorMeansSuccess ==
    \A c \in Clients :
        (/\ client[c].pc = "done" /\ client[c].op = "retry"
         /\ client[c].ret.kind \in {"ok", "nilnil"})
        => (/\ client[c].ret = [kind |-> "ok", job |-> c]
            /\ client[c].att >= 1
            /\ client[c].out = client[c].ret)

\* C30: a Submit whose context is never cancelled returns exactly the
\* Result computed from its own job's data: a Result in a job's channel was
\* computed from that job, the Result of a job whose submitter still waits
\* is never dropped, and the call returns the one Result of its own job.
C30_OwnResultDelivered ==
    \A c \in Clients :
        /\ job[c].sent <= job[c].conv
        /\ job[c].rchan # "empty" => (job[c].conv = 1 /\ job[c].sent = 1)
        /\ client[c].pc = "wait" => job[c].dropped = 0
        /\ (/\ client[c].pc = "done" /\ client[c].op = "submit"
            /\ ~client[c].ctx
            /\ client[c].ret.kind \in ConvResults)
           => (/\ client[c].ret.job = c
               /\ job[c].enq /\ job[c].taken = 1 /\ job[c].conv = 1
               /\ job[c].sent = 1 /\ job[c].dropped = 0
               /\ job[c].rchan = "empty")

\* C30's case: two submitters with live contexts have each returned the
\* Result of their own job, one a success and one a conversion error, the
\* jobs having been in the queue together.
C30_Witness ==
    \E c, d \in Clients :
        /\ c # d
        /\ ~client[c].ctx /\ ~client[d].ctx
        /\ client[c].pc = "done" /\ client[c].ret = [kind |-> "ok", job |-> c]
        /\ client[d].pc = "done" /\ client[d].ret = [kind |-> "fail", job |-> d]
        /\ job[c].conv = 1 /\ job[d].conv = 1
        /\ job[c].dropped = 0 /\ job[d].dropped = 0

\* =====================================================================
\* Properties of the ConcurrencyLimiter's active count
\* =====================================================================
\* No caller is between the channel operation and the counter update of an
\* Acquire or a Release.
Quiescent == \A c \in Callers : caller[c].pc \in {"idle", "hold"}

\* C31: under any interleaving of Acquire and Release calls the active
\* count stays within 0..max, and it equals the number of held slots
\* whenever no Acquire or Release is in progress.
C31_ActiveWithinMax ==
    /\ active >= 0
    /\ active <= clMax
    /\ Quiescent => (active = sem /\ active = Cardinality(SlotHolders))

\* =====================================================================
\* Properties of the token count
\* =====================================================================
Min(a, b) == IF a <= b THEN a ELSE b

\* The token count an Allow call decides on, in units: a full bucket for a
\* key without entry, else the stored count plus elapsed * rate, capped at
\* burst.
Available(k) ==
    IF limits[k].exists
    THEN Min(burst * Unit, limits[k].tokens + (now - limits[k].lastRef) * rate)
    ELSE burst * Unit

\* The step is an Allow call that is visible in the limiter's state: the
\* clock is not read anew and no entry is deleted.
AllowStep ==
    /\ now' = now
    /\ \A k \in AllKeys : limits[k].exists => limits'[k].exists
    /\ <<limits, rlRet, lastCall>>' # <<limits, rlRet, lastCall>>

\* C32: for burst >= 1, after any sequence of Allow calls and sweeps every
\* bucket's token count t satisfies 0 <= t <= burst; Allow returns true
\* exactly when the refilled and capped count is >= 1 and then consumes
\* exactly one token, and a rejected call consumes none.
C32_TokensWithinBurst ==
    /\ [](burst >= 1 =>
            \A k \in AllKeys :
                limits[k].exists =>
                    (limits[k].tokens >= 0 /\ limits[k].tokens <= burst * Unit))
    /\ [][(burst >= 1 /\ AllowStep) =>
            /\ rlRet'.key \in AllKeys
            /\ (rlRet'.ok = "true") <=> (Available(rlRet'.key) >= Unit)
            /\ rlRet'.ok \in {"true", "false"}
            /\ limits'[rlRet'.key].exists
            /\ limits'[rlRet'.key].lastRef = now
            /\ rlRet'.ok = "true"
                  => limits'[rlRet'.key].tokens = Available(rlRet'.key) - Unit
            /\ rlRet'.ok = "false"
                  => limits'[rlRet'.key].tokens = Available(rlRet'.key)]_vars

\* C32's case: after a sweep has run, a call was rejected on a partly
\* refilled bucket, which keeps its fraction of a token, and the bucket of
\* another key was refilled up to the cap and then charged one token.
C32_Witness ==
    /\ burst >= 1 /\ rate >= 1
    /\ now > Ttl
    /\ \E k, j \in AllKeys :
          /\ k # j
          /\ rlRet = [key |-> k, ok |-> "false"]
          /\ limits[k].exists /\ limits[k].tokens > 0 /\ limits[k].tokens < Unit
          /\ limits[k].lastRef = now
          /\ lastCall[j].ok = "true" /\ lastCall[j].prev = "true"
          /\ lastCall[j].at > lastCall[j].prevAt
          /\ limits[j].exists /\ limits[j].tokens = (burst - 1) * Unit

\* =====================================================================
\* Properties of the admission rate
\* =====================================================================
\* C33: over any time interval of length T seconds the number of calls for
\* one key that Allow admits is at most burst + rate * T, also when the
\* key's bucket is evicted by the sweep and re-created within the interval,
\* for every rate >= 0 and burst >= 1.  (The i-th to the j-th admission of a
\* key lie in the interval between their two times; counts are compared in
\* units of 1/TicksPerSec.)
C33_AdmissionsBounded ==
    (rate >= 0 /\ burst >= 1) =>
        \A k \in AllKeys :
            \A i, j \in 1..Len(admits[k]) :
                i <= j =>
                    (j - i + 1) * Unit
                        <= burst * Unit + rate * (admits[k][j] - admits[k][i])

\* =====================================================================
\* Properties of the choice of the conversion variant
\* =====================================================================
\* C34: for every pair (scale, quality) a worker and the fallback of
\* SubmitToGlobalPool select the same conversion variant: scaled with fixed
\* quality iff quality > 0 and 0 < scale < 1; scaled without fixed quality
\* iff 0 < scale < 1 and quality <= 0; full-resolution with fixed quality
\* iff quality > 0 and scale is outside (0, 1); full-resolution adaptive
\* otherwise.
C34_SameVariant ==
    LET inside == sel.scale.num > 0 /\ sel.scale.num < sel.scale.den
        picked == {sel.worker, sel.fallback} \ {"none"}
    IN  /\ Cardinality(picked) <= 1
        /\ \A v \in picked :
              /\ v = "ConvertBytesFastWithQuality" <=> (sel.quality > 0 /\ inside)
              /\ v = "ConvertBytesFast" <=> (inside /\ sel.quality <= 0)
              /\ v = "ConvertBytesWithQuality" <=> (sel.quality > 0 /\ ~inside)
              /\ v = "ConvertBytes" <=> (sel.quality <= 0 /\ ~inside)

\* C34's case: for a scale in (0, 1) with the negative quality, the worker
\* and the fallback have both picked the scaled variant without fixed
\* quality.
C34_Witness ==
    /\ sel.scale = [num |-> 1, den |-> 2]
    /\ sel.quality = -1
    /\ sel.worker = "ConvertBytesFast"
    /\ sel.fallback = "ConvertBytesFast"

\* C35: a job with 0 < scale < 1 and the negative quality sentinel is
\* encoded with the adaptively estimated quality (the estimator applied to
\* the image and the pool's target size), exactly as a full-resolution job
\* with the sentinel is.
C35_ScaledAdaptiveQuality ==
    (sel.quality < 0 /\ sel.enc # NotEncoded)
        => sel.enc.src = "estimator"

\* =====================================================================
\* Properties of the chroma resampling
\* =====================================================================
\* scaleImage has handed the image to scaleYCbCrNearest.
YCbCrScalerRan ==
    /\ ScaleReturned
    /\ ~NoScalingNeeded(scIn.scale)
    /\ scIn.img.w > 0 /\ scIn.img.h > 0
    /\ scIn.img.kind = "YCbCr"

\* C36: when a YCbCr source is scaled, the source chroma width and height
\* used in the index mapping equal the real dimensions of the source's Cb
\* and Cr planes, for every source subsampling ratio and for odd source
\* widths or heights.
C36_ChromaOwnDimensions ==
    YCbCrScalerRan =>
        /\ cSrcW(scIn.img) = scIn.img.cw
        /\ cSrcH(scIn.img) = scIn.img.ch

\* C37: ConvertBytesFast and ConvertBytesFastWithQuality treat a scale that
\* is zero or negative as no scaling: for scale <= 0, as for scale >= 1,
\* the image passed to the encoder (the result of their scaleImage call) is
\* the decoded image with its original dimensions.
C37_NonPositiveScaleIsNoScaling ==
    (ScaleReturned /\ (scIn.scale.num <= 0 \/ scIn.scale.num >= scIn.scale.den))
    => /\ scOut = scIn.img
       /\ scOut.w = scIn.img.w /\ scOut.h = scIn.img.h

\* C38: for every factor in (0, 1) and every source image accepted by
\* ValidateImage (each dimension >= 16), scaleImage never returns an image
\* that is larger than its input in either dimension.
C38_NeverLargerThanInput ==
    (/\ ScaleReturned
     /\ ProperFraction(scIn.scale)
     /\ ValidateImage(scIn.img))
    => /\ scOut.w <= scIn.img.w
       /\ scOut.h <= scIn.img.h

\* scaleImage has returned the image it allocated and resampled.
ScaledCopyReturned == ScaleReturned /\ scOut.ptr = "new"

\* C39: every sample of the Cb and Cr planes of the image returned by
\* scaleImage, all ceil(w/2) x ceil(h/2) samples allocated for an output of
\* w x h, is written from a source sample, also when the output width or
\* height is odd: the columns x < cDstW and rows y < cDstH that the chroma
\* loops of the scalers write are all columns and rows of the planes.
C39_AllChromaWritten ==
    ScaledCopyReturned =>
        /\ scOut.cw = (scOut.w + 1) \div 2
        /\ scOut.ch = (scOut.h + 1) \div 2
        /\ cDstW(scOut.w) = scOut.cw
        /\ cDstH(scOut.h) = scOut.ch

\* =====================================================================
\* Properties of the fixed-point index mapping
\* =====================================================================
\* C40: in scaleYCbCrNearest, for every 4:2:0 source with dimensions
\* 16..20000 and every destination with dimensions >= 100, each source
\* index computed by (x * ((srcDim << 16) / dstDim)) >> 16 lies inside the
\* source plane (0 <= index < srcDim for luma, < srcDim/2 for chroma) and
\* every destination index lies inside the destination plane: no row of
\* either loop faults, and the rows passed so far had all their indexes in
\* range.
C40_IndexesInRange ==
    (/\ nearest.pc # "idle"
     /\ nearest.src.ratio = "420"
     /\ nearest.src.w >= MinImageDimension /\ nearest.src.w <= MaxImageWidth
     /\ nearest.src.h >= MinImageDimension /\ nearest.src.h <= MaxImageHeight
     /\ nearest.dst.w >= MinScaledDim /\ nearest.dst.h >= MinScaledDim)
    => /\ nearest.pc # "panicked"
       /\ nearest.pc = "luma" =>
             \A y \in 0..(nearest.y - 1) :
                 LET i == (y * ((nearest.src.h * 65536) \div nearest.dst.h)) \div 65536
                 IN  i >= 0 /\ i < nearest.src.h
       /\ nearest.pc = "chroma" =>
             \A y \in 0..(nearest.y - 1) :
                 LET i == (y * (((nearest.src.h \div 2) * 65536)
                                    \div (nearest.dst.h \div 2))) \div 65536
                 IN  i >= 0 /\ i < nearest.src.h \div 2 /\ y < nearest.dst.ch

\* C40's case: the scaler has gone through both loops, without a fault, for
\* the largest source, of odd height, and a destination of odd width and
\* height at the smallest size.
C40_Witness ==
    /\ nearest.pc = "done"
    /\ nearest.src.ratio = "420"
    /\ nearest.src.w = 20000 /\ nearest.src.h = 17
    /\ nearest.dst.w = 101 /\ nearest.dst.h = 101

====
